---- MODULE Spec2Model ----
(***************************************************************************)
(* Bulk campaign dispatch of the email-sender backend: the start route     *)
(* (POST /api/campaigns/:id/send), the dispatcher sendCampaign with its    *)
(* per-recipient loop, and the rows they read and write (campaigns,        *)
(* campaign_recipients, email_logs, smtp_configs).  Every await of the     *)
(* code is one atomic step; tasks interleave at those steps, as they do    *)
(* on the Node.js event loop.                                              *)
(***************************************************************************)
EXTENDS Integers, Sequences, FiniteSets, TLC

\* ---------------------------------------------------------------- bounds
NumRecipients == 2      \* recipient entries of the campaign
MaxCrashes == 1         \* process exits in one behaviour
MaxTotal == 80          \* largest recipient_count given to calculateProgress
MaxFailed == 2          \* largest failed_count given to calculateProgress
MaxParts == 2           \* parts a template given to replaceTemplateVariables has
MaxFields == 2          \* entries of the field map given to it

\* Two request/dispatcher tasks may be in flight at once.
Tasks == {"t1", "t2"}
RecipientIds == 1..NumRecipients

NULL == "NULL"

\* Error texts (src/backend/src/utils/emailService.js, throw sites).
SendErrors == {"Recipient address rejected"}
DbError == "storage error"
NotQueuedError == "Cannot send campaign with status"
SmtpError == "SMTP connection failed"
\* Error texts of the start route's 400 answers (campaigns.js, 404 and 417).
CannotSendError == "Cannot send campaign"
NoSmtpError == "No SMTP configuration"
MessageId == "message-id"

\* Line 108: the pacing interval in milliseconds, sleep(1000).
PacingMs == 1000

VARIABLES
  campaign,             \* the campaigns row
  campaign_recipients,  \* recipient id -> its campaign_recipients row
  email_logs,           \* the email_logs rows of the campaign, in insert order
  smtp_config,          \* the user's smtp_configs row: none, bad or good credentials
  task,                 \* task -> its position and locals
  attempts,             \* recipient id -> number of sendEmail calls made for it
  crashes,              \* process exits so far
  poll,                 \* the progress request: its position, row read and result
  render,               \* a call of replaceTemplateVariables: arguments and result
  db,                   \* the tables with the rows of several campaigns
  run,                  \* campaign id -> its start request and sendCampaign run
  deletion,             \* a DELETE /api/campaigns/:id request
  creation,             \* a POST /api/campaigns request
  message               \* a call of sendToRecipient: arguments and the message sent

vars == <<campaign, campaign_recipients, email_logs, smtp_config, task,
          attempts, crashes, poll, render, db, run, deletion, creation,
          message>>

\* The variables of the specifications over several campaigns.
tableVars == <<db, run, deletion, creation>>

\* The value of a variable in the specifications that do not use it.
NoTables == <<>>

TablesUnused ==
  /\ db = NoTables
  /\ run = NoTables
  /\ deletion = NoTables
  /\ creation = NoTables
  /\ message = NoTables

dbVars == <<campaign, campaign_recipients, email_logs>>

\* ------------------------------------------------------------ pure parts

\* The ids in descending order.
RECURSIVE OrderByIdDescending(_)
OrderByIdDescending(S) ==
  IF S = {} THEN <<>>
  ELSE LET m == CHOOSE x \in S : \A y \in S : x >= y
       IN <<m>> \o OrderByIdDescending(S \ {m})

\* SELECT id ... WHERE status = 'pending' ORDER BY id, over a set of ids.
RECURSIVE OrderById(_)
OrderById(S) ==
  IF S = {} THEN <<>>
  ELSE LET m == CHOOSE x \in S : \A y \in S : x <= y
       IN <<m>> \o OrderById(S \ {m})

\* The same SELECT with ORDER BY id DESC.
PendingRecipientsDescending(rows) ==
  OrderByIdDescending({r \in RecipientIds : rows[r].status = "pending"})

\* The same SELECT without its status filter.
PendingRecipientsUnfiltered(rows) == OrderById(RecipientIds)

PendingRecipients(rows) ==
  OrderById({r \in RecipientIds : rows[r].status = "pending"})

\* new Date() in task p at the line of pc: the instant is named by the task
\* and the line that took it.
NewDate(p, pc) == p \o "@" \o pc

\* NOW() of the storage: one value for every instant, only its presence is
\* told apart.
NOW == "NOW"

\* Lines 228-249: UPDATE campaigns SET status = $1 [, started_at = $2]
\* [, completed_at = $3] WHERE id = $n; a timestamp that is null is not
\* written.
updateCampaignStatus(c, status, startedAt, completedAt) ==
  [c EXCEPT !.status = status,
            !.started_at = IF startedAt # NULL THEN startedAt ELSE @,
            !.completed_at = IF completedAt # NULL THEN completedAt ELSE @]

\* INSERT INTO email_logs (...)
logEmail(logs, rid, status, messageId, errorMessage) ==
  Append(logs, [recipient_id |-> rid, status |-> status,
                message_id |-> messageId, error_message |-> errorMessage])

CountStatus(rows, s) == Cardinality({r \in RecipientIds : rows[r].status = s})

\* calculateProgress: the pending value reported to pollers.
ProgressPending(c) == c.recipient_count - c.sent_count - c.failed_count

\* ------------------------------------------- JavaScript Number arithmetic
\* The Numbers of calculateProgress are IEEE 754 doubles.  A positive double
\* is [m, e]: m its significand, Precision bits with the most significant
\* first (m[1] = 1), e the exponent of m[1]; the value is the sum of
\* m[i] * 2^(e - i + 1).  Zero is handled by the callers.

\* Bits of the significand of a double.
Precision == 53

RECURSIVE Pow2(_)
Pow2(k) == IF k = 0 THEN 1 ELSE 2 * Pow2(k - 1)

\* The long division and the multiplication below work on this many binary
\* digits at a time.
ChunkBits == 8

\* The w lowest binary digits of a natural number, most significant first.
BitsOf(n, w) == [i \in 1..w |-> (n \div Pow2(w - i)) % 2]

\* The binary digits of a natural number, most significant first.
RECURSIVE ToBits(_)
ToBits(n) == IF n = 0 THEN <<>> ELSE Append(ToBits(n \div 2), n % 2)

\* The natural number with the binary digits bits.
RECURSIVE FromBits(_)
FromBits(bits) ==
  IF bits = <<>> THEN 0
  ELSE 2 * FromBits(SubSeq(bits, 1, Len(bits) - 1)) + bits[Len(bits)]

\* bits + 1 on the same number of digits, for bits that are not all ones.
Inc(bits) ==
  LET j == CHOOSE k \in 1..Len(bits) :
             bits[k] = 0 /\ \A i \in (k + 1)..Len(bits) : bits[i] = 1
  IN [i \in 1..Len(bits) |-> IF i < j THEN bits[i] ELSE IF i = j THEN 1 ELSE 0]

\* Round a significand of any length (bits[1] = 1, exponent e, sticky: a
\* non-zero part lies below the digits given) to Precision digits, to nearest
\* with ties to even.
RoundToPrecision(bits, sticky, e) ==
  LET n == Len(bits) IN
  IF n <= Precision
  THEN [m |-> bits \o [i \in 1..(Precision - n) |-> 0], e |-> e]
  ELSE LET keep == SubSeq(bits, 1, Precision)
           guard == bits[Precision + 1]
           rest == sticky \/ \E i \in (Precision + 2)..n : bits[i] = 1
           up == guard = 1 /\ (rest \/ keep[Precision] = 1)
       IN IF ~up THEN [m |-> keep, e |-> e]
          ELSE IF \A i \in 1..Precision : keep[i] = 1
               THEN [m |-> [i \in 1..Precision |-> IF i = 1 THEN 1 ELSE 0],
                     e |-> e + 1]
               ELSE [m |-> Inc(keep), e |-> e]

\* The next k digits of the long division of r by den (r < den), with the
\* remainder left over.
RECURSIVE DivBits(_, _, _)
DivBits(r, den, k) ==
  IF k = 0 THEN [bits |-> <<>>, rem |-> r]
  ELSE LET w == IF k < ChunkBits THEN k ELSE ChunkBits
           t == DivBits((r * Pow2(w)) % den, den, k - w)
       IN [bits |-> BitsOf((r * Pow2(w)) \div den, w) \o t.bits, rem |-> t.rem]

\* The exponent of n / d: the e with 2^e <= n / d < 2^(e + 1).
RECURSIVE ExponentOf(_, _)
ExponentOf(n, d) ==
  IF n >= 2 * d THEN ExponentOf(n, 2 * d) + 1
  ELSE IF n < d THEN ExponentOf(2 * n, d) - 1
  ELSE 0

\* The double n / d of two positive integers.
Divide(n, d) ==
  LET e == ExponentOf(n, d)
      num == IF e < 0 THEN n * Pow2(0 - e) ELSE n
      den == IF e > 0 THEN d * Pow2(e) ELSE d
      t == DivBits(num - den, den, Precision)
  IN RoundToPrecision(<<1>> \o t.bits, t.rem # 0, e)

\* The digits of bits[1..hi] * c + carry, for a small positive integer c.
RECURSIVE MulBits(_, _, _, _)
MulBits(bits, c, hi, carry) ==
  IF hi = 0 THEN ToBits(carry)
  ELSE LET w == IF hi < ChunkBits THEN hi ELSE ChunkBits
           v == FromBits(SubSeq(bits, hi - w + 1, hi)) * c + carry
       IN MulBits(bits, c, hi - w, v \div Pow2(w)) \o BitsOf(v, w)

\* The exact product x * c as a significand of any length with its exponent.
TimesExact(x, c) ==
  LET bits == MulBits(x.m, c, Len(x.m), 0)
  IN [m |-> bits, e |-> x.e + Len(bits) - Len(x.m)]

\* The double x * c.
Times(x, c) ==
  LET t == TimesExact(x, c) IN RoundToPrecision(t.m, FALSE, t.e)

\* The integer nearest to x, a tie going up: Math.round of a positive Number
\* and the digit choice of Number.prototype.toFixed.
RoundHalfUp(x) ==
  LET n == Len(x.m)
      whole == IF x.e < 0 THEN 0
               ELSE FromBits([i \in 1..(x.e + 1) |-> IF i <= n THEN x.m[i] ELSE 0])
      half == IF x.e + 2 >= 1 /\ x.e + 2 <= n THEN x.m[x.e + 2] ELSE 0
  IN whole + half

\* Line 76: Math.round(((sent + failed) / total) * 100 * 10), the percentage
\* in tenths; the final / 10 gives the Number nearest to that many tenths.
PercentageTenths(done, total) ==
  IF done = 0 THEN 0
  ELSE RoundHalfUp(Times(Times(Divide(done, total), 100), 10))

\* Line 81: (sent / (sent + failed)).toFixed(4) read back by parseFloat, in
\* ten-thousandths.
SuccessRateTenThousandths(sent, done) ==
  IF sent = 0 THEN 0
  ELSE RoundHalfUp(TimesExact(Divide(sent, done), 10000))

\* Lines 68-92.  percentage is in tenths of a percent, success_rate in
\* ten-thousandths.
calculateProgress(c) ==
  LET total == c.recipient_count
      sent == c.sent_count
      failed == c.failed_count
  IN [total_recipients |-> total, sent |-> sent, failed |-> failed,
      pending |-> ProgressPending(c),
      percentage |-> IF total > 0 THEN PercentageTenths(sent + failed, total) ELSE 0,
      success_rate |-> IF sent + failed > 0
                       THEN SuccessRateTenThousandths(sent, sent + failed) ELSE 0]

\* ------------------------------------------------- replaceTemplateVariables
\* A string is the sequence of its characters.

\* One element of the regular expression built at line 212: a character of
\* the key that is a dot matches any character, every other character of the
\* alphabet used here matches itself, as do the escaped braces around the key.
AtomMatches(atom, ch) == atom.any \/ atom.ch = ch

Literal(chars) == [i \in 1..Len(chars) |-> [any |-> FALSE, ch |-> chars[i]]]

\* Line 212: new RegExp(`\\{\\{${key}\\}\\}`, 'g'); the key goes into the
\* expression as it is.
KeyPattern(key) ==
  Literal(<<"{", "{">>)
    \o [i \in 1..Len(key) |-> [any |-> key[i] = ".", ch |-> key[i]]]
    \o Literal(<<"}", "}">>)

MatchesAt(s, i, pat) ==
  /\ i + Len(pat) - 1 <= Len(s)
  /\ \A j \in 1..Len(pat) : AtomMatches(pat[j], s[i + j - 1])

\* The replacement text String.prototype.replace puts in for a match: $$
\* stands for a dollar sign and $& for the matched text; the expression has
\* no groups, and the other patterns need characters the alphabet lacks.
RECURSIVE Substitution(_, _, _)
Substitution(repl, i, matched) ==
  IF i > Len(repl) THEN <<>>
  ELSE IF repl[i] = "$" /\ i < Len(repl) /\ repl[i + 1] = "$"
       THEN <<"$">> \o Substitution(repl, i + 2, matched)
  ELSE IF repl[i] = "$" /\ i < Len(repl) /\ repl[i + 1] = "&"
       THEN matched \o Substitution(repl, i + 2, matched)
  ELSE <<repl[i]>> \o Substitution(repl, i + 1, matched)

\* Line 213: s.replace(regex, repl) with the g flag, from position i on.
RECURSIVE ReplaceAll(_, _, _, _)
ReplaceAll(s, i, pat, repl) ==
  IF i > Len(s) THEN <<>>
  ELSE IF MatchesAt(s, i, pat)
       THEN Substitution(repl, 1, SubSeq(s, i, i + Len(pat) - 1))
              \o ReplaceAll(s, i + Len(pat), pat, repl)
  ELSE <<s[i]>> \o ReplaceAll(s, i + 1, pat, repl)

\* The number of characters other than } that s has from position i on.
RECURSIVE RunOfNonClosing(_, _)
RunOfNonClosing(s, i) ==
  IF i > Len(s) \/ s[i] = "}" THEN 0 ELSE 1 + RunOfNonClosing(s, i + 1)

\* Line 217: s.replace(/\{\{[^}]+\}\}/g, ''), from position i on.
RECURSIVE RemoveRemaining(_, _)
RemoveRemaining(s, i) ==
  IF i > Len(s) THEN <<>>
  ELSE LET n == RunOfNonClosing(s, i + 2)
           hit == /\ i + n + 3 <= Len(s)
                  /\ s[i] = "{" /\ s[i + 1] = "{"
                  /\ n >= 1
                  /\ s[i + n + 2] = "}" /\ s[i + n + 3] = "}"
       IN IF hit THEN RemoveRemaining(s, i + n + 4)
          ELSE <<s[i]>> \o RemoveRemaining(s, i + 1)

\* Lines 210-214: the loop over Object.entries(data), from entry i on; data
\* is the sequence of its <<key, value>> entries in insertion order.
RECURSIVE ReplaceEach(_, _, _)
ReplaceEach(s, data, i) ==
  IF i > Len(data) THEN s
  ELSE ReplaceEach(ReplaceAll(s, 1, KeyPattern(data[i][1]), data[i][2]), data, i + 1)

\* Lines 204-219.
replaceTemplateVariables(text, data) ==
  IF text = <<>> THEN <<>>
  ELSE RemoveRemaining(ReplaceEach(text, data, 1), 1)

\* ----------------------------------------------------------------- tasks

NoAttempts == [r \in RecipientIds |-> <<>>]

\* pc is the line of sendCampaign (s..) or of the route (r..) the task waits
\* at.  recipients, idx and error are the locals of sendCampaign; the other
\* fields record what the task has met: a storage error (faulted), a
\* transport that could not be established (noTransport), the campaign status
\* at a direct call (invokedOn), the entries that were pending at its SELECT
\* (startPending), the outcome of each of its sendEmail calls (results), the
\* milliseconds it has spent in sleep since its last sendEmail call began
\* (waited), and the transporter of line 52: none, open or closed.
IdleTask ==
  [pc |-> "idle", origin |-> NULL, response |-> NULL,
   recipients |-> <<>>, idx |-> 0, error |-> NULL,
   faulted |-> FALSE, noTransport |-> FALSE, invokedOn |-> NULL,
   startPending |-> {}, results |-> NoAttempts, waited |-> 0,
   transporter |-> "none"]

\* No call of replaceTemplateVariables is being looked at.
NoRender == [pc |-> "idle", parts |-> <<>>, data |-> <<>>, result |-> <<>>]

\* No progress request is in flight and none has been answered.
IdlePoll == [pc |-> "idle", arg |-> NULL, progress |-> NULL, recent |-> 0]

Init ==
  /\ campaign = [status |-> "draft", recipient_count |-> NumRecipients,
                 sent_count |-> 0, failed_count |-> 0,
                 started_at |-> NULL, completed_at |-> NULL]
  /\ campaign_recipients =
       [r \in RecipientIds |->
          [status |-> "pending", error_message |-> NULL, sent_at |-> NULL]]
  /\ email_logs = <<>>
  /\ smtp_config \in {"none", "bad", "good"}
  /\ task = [p \in Tasks |-> IdleTask]
  /\ attempts = [r \in RecipientIds |-> 0]
  /\ crashes = 0
  /\ poll = IdlePoll
  /\ render = NoRender
  /\ TablesUnused

envVars == <<smtp_config, attempts, crashes, poll, render, tableVars, message>>

Finished(p) == task[p].pc \in {"responded", "returned", "threw"}

\* Storage errors are injected into a task only while no other task is in
\* flight: the model covers interleaved tasks and failing storage calls, not
\* the two at once.
MayThrow(p) == \A q \in Tasks \ {p} : task[q].pc = "idle" \/ Finished(q)

\* A db.query of task p throws (any query may): control goes to `to` with the
\* storage error.
DbThrows(p, to) ==
  /\ MayThrow(p)
  /\ task' = [task EXCEPT ![p].pc = to, ![p].error = DbError, ![p].faulted = TRUE]
  /\ UNCHANGED <<dbVars, envVars>>

\* A db.query of a route handler throws: its catch answers 500.
RouteThrows(p) ==
  /\ MayThrow(p)
  /\ task' = [task EXCEPT ![p].pc = "responded", ![p].origin = "route",
                          ![p].response = "500", ![p].faulted = TRUE]
  /\ UNCHANGED <<dbVars, envVars>>

Goto(p, to) == [task EXCEPT ![p].pc = to]

\* -------------------------------------------- POST /api/campaigns/:id/send

\* A start route that accepts a campaign in any status.
StartableStatusAny(s) == TRUE

\* The status a campaign must have for the start route to accept it.
StartableStatus(s) == s = "draft"

\* Lines 387-408: read the campaign, reject unless it is a draft.
RouteGetCampaign(p) ==
  /\ task[p].pc = "idle"
  /\ \/ /\ StartableStatus(campaign.status)
        /\ task' = [task EXCEPT ![p].pc = "r411", ![p].origin = "route"]
        /\ UNCHANGED <<dbVars, envVars>>
     \/ /\ ~StartableStatus(campaign.status)
        /\ task' = [task EXCEPT ![p].pc = "responded", ![p].origin = "route",
                                ![p].response = "400",
                                ![p].error = CannotSendError]
        /\ UNCHANGED <<dbVars, envVars>>
     \/ RouteThrows(p)

\* Lines 410-421: the user must have an smtp_configs row.
RouteCheckSmtp(p) ==
  /\ task[p].pc = "r411"
  /\ \/ /\ smtp_config # "none"
        /\ task' = Goto(p, "r424")
        /\ UNCHANGED <<dbVars, envVars>>
     \/ /\ smtp_config = "none"
        /\ task' = [task EXCEPT ![p].pc = "responded", ![p].response = "400",
                                ![p].error = NoSmtpError]
        /\ UNCHANGED <<dbVars, envVars>>
     \/ RouteThrows(p)

\* A start route that schedules sendCampaign and leaves the answer to it.
StartedWithoutAnswer(t) == [t EXCEPT !.pc = "s16"]

\* Lines 429-446: sendCampaign is scheduled with setImmediate and the 200
\* answer is written in the same synchronous block, before the callback runs.
Started(t) == [t EXCEPT !.pc = "s16", !.response = "200"]

\* Lines 423-446: set the campaign to queued, schedule sendCampaign and
\* answer 200.
RouteQueue(p) ==
  /\ task[p].pc = "r424"
  /\ \/ /\ campaign' = [campaign EXCEPT !.status = "queued"]
        /\ task' = [task EXCEPT ![p] = Started(@)]
        /\ UNCHANGED <<campaign_recipients, email_logs, envVars>>
     \/ RouteThrows(p)

\* ------------------------------------------------------------ sendCampaign

\* Line 28: the status sendCampaign requires.
DispatchableStatus(s) == s = "queued"

\* Lines 16-30: read the campaign row; anything but queued throws.
GetCampaign(p) ==
  /\ task[p].pc = "s16"
  /\ \/ /\ DispatchableStatus(campaign.status)
        /\ task' = Goto(p, "s33")
        /\ UNCHANGED <<dbVars, envVars>>
     \/ /\ ~DispatchableStatus(campaign.status)
        /\ task' = [task EXCEPT ![p].pc = "s129", ![p].error = NotQueuedError]
        /\ UNCHANGED <<dbVars, envVars>>
     \/ DbThrows(p, "s129")

\* Lines 32-49: read the pending recipients in id order.
GetPending(p) ==
  /\ task[p].pc = "s33"
  /\ \/ /\ LET rs == PendingRecipients(campaign_recipients)
           IN task' = [task EXCEPT
                 ![p].recipients = rs,
                 ![p].startPending =
                    {r \in RecipientIds : campaign_recipients[r].status = "pending"},
                 ![p].pc = IF Len(rs) = 0 THEN "s45" ELSE "s54"]
        /\ UNCHANGED <<dbVars, envVars>>
     \/ DbThrows(p, "s129")

\* Lines 43-47: nothing pending, complete at once; the date is the third
\* argument of updateCampaignStatus, its startedAt.
CompleteEmpty(p) ==
  /\ task[p].pc = "s45"
  /\ \/ /\ campaign' = updateCampaignStatus(campaign, "completed",
                                          NewDate(p, "s45"), NULL)
        /\ task' = Goto(p, "returned")
        /\ UNCHANGED <<campaign_recipients, email_logs, envVars>>
     \/ DbThrows(p, "s129")

\* A transport error that is ignored: the run goes on to the loop.
AfterTransportErrorIgnored(t) == [t EXCEPT !.pc = "s63", !.error = SmtpError]

\* Where sendCampaign goes when createTransporter or verifyTransporter throws.
AfterTransportError(t) == [t EXCEPT !.pc = "s58", !.error = SmtpError]

\* The transporter that sendCampaign holds when lines 54-55 throw: none when
\* createTransporter threw (no smtp_configs row, a storage or decryption
\* error), the created one when verifyTransporter threw.
TransporterAfterFailure ==
  {"none"} \cup (IF smtp_config # "none" THEN {"open"} ELSE {})

\* Lines 51-56 with createTransporter and verifyTransporter: the transport is
\* there only if the smtp_configs row can be read and the server accepts its
\* credentials, and the connection may fail even then.
CreateTransport(p) ==
  /\ task[p].pc = "s54"
  /\ \/ /\ smtp_config = "good"
        /\ task' = [task EXCEPT ![p].pc = "s63", ![p].transporter = "open"]
     \/ \E tr \in TransporterAfterFailure :
          task' = [task EXCEPT
             ![p] = AfterTransportError([@ EXCEPT !.noTransport = TRUE,
                                                  !.transporter = tr])]
  /\ UNCHANGED <<dbVars, envVars>>

\* Line 58: the status written when the transport could not be established.
TransportFailureStatus == "failed"

\* Lines 57-59: mark the campaign failed and rethrow to the outer catch.
TransportFailed(p) ==
  /\ task[p].pc = "s58"
  /\ \/ /\ campaign' = updateCampaignStatus(campaign, TransportFailureStatus, NULL, NULL)
        /\ task' = Goto(p, "s129")
        /\ UNCHANGED <<campaign_recipients, email_logs, envVars>>
     \/ DbThrows(p, "s129")

\* Line 63: the campaign goes to sending; the loop starts at the first entry.
MarkSending(p) ==
  /\ task[p].pc = "s63"
  /\ \/ /\ campaign' = updateCampaignStatus(campaign, "sending",
                                          NewDate(p, "s63"), NULL)
        /\ task' = [task EXCEPT ![p].pc = "s71", ![p].idx = 1]
        /\ UNCHANGED <<campaign_recipients, email_logs, envVars>>
     \/ DbThrows(p, "s129")

Current(p) == task[p].recipients[task[p].idx]

\* A failed send attempt that leaves the loop for the outer catch.
AfterSendErrorAbort(t, e) == [t EXCEPT !.pc = "s129", !.error = e]

\* Lines 87-89: a failed send attempt enters the catch of the loop body.
AfterSendError(t, e) == [t EXCEPT !.pc = "s92", !.error = e]

\* Lines 71 and 176-181: one sendEmail call for the current recipient.
SendToRecipient(p) ==
  /\ task[p].pc = "s71"
  /\ attempts' = [attempts EXCEPT ![Current(p)] = @ + 1]
  /\ \/ task' = [task EXCEPT ![p].pc = "s184", ![p].waited = 0,
                             ![p].results[Current(p)] = Append(@, "sent")]
     \/ \E e \in SendErrors :
          task' = [task EXCEPT
             ![p] = AfterSendError([@ EXCEPT !.results[Current(p)] = Append(@, e),
                                             !.waited = 0], e)]
  /\ UNCHANGED <<dbVars, smtp_config, crashes, poll, render, tableVars, message>>

\* Lines 183-193: the log entry of a successful send, still inside the try.
LogSent(p) ==
  /\ task[p].pc = "s184"
  /\ \/ /\ email_logs' = logEmail(email_logs, Current(p), "sent", MessageId, NULL)
        /\ task' = Goto(p, "s75")
        /\ UNCHANGED <<campaign, campaign_recipients, envVars>>
     \/ DbThrows(p, "s92")

\* Lines 74-78: UPDATE campaign_recipients SET status = 'sent',
\* sent_at = NOW() WHERE id = $2.
MarkSent(p) ==
  /\ task[p].pc = "s75"
  /\ \/ /\ campaign_recipients' =
             [campaign_recipients EXCEPT ![Current(p)].status = "sent",
                                         ![Current(p)].sent_at = NOW]
        /\ task' = Goto(p, "s81")
        /\ UNCHANGED <<campaign, email_logs, envVars>>
     \/ DbThrows(p, "s92")

\* Lines 80-84.
IncSent(p) ==
  /\ task[p].pc = "s81"
  /\ \/ /\ campaign' = [campaign EXCEPT !.sent_count = @ + 1]
        /\ task' = Goto(p, "s108")
        /\ UNCHANGED <<campaign_recipients, email_logs, envVars>>
     \/ DbThrows(p, "s92")

\* An UPDATE that stores the error message and leaves the status as it is.
markFailedKeepingStatus(rows, rid, errorMessage) ==
  [rows EXCEPT ![rid].error_message = errorMessage]

\* Lines 91-95: UPDATE campaign_recipients SET status = 'failed', error_message.
markFailed(rows, rid, errorMessage) ==
  [rows EXCEPT ![rid].status = "failed", ![rid].error_message = errorMessage]

\* Lines 87-95: the catch of the loop body marks the recipient failed.
MarkFailed(p) ==
  /\ task[p].pc = "s92"
  /\ \/ /\ campaign_recipients' =
             markFailed(campaign_recipients, Current(p), task[p].error)
        /\ task' = Goto(p, "s98")
        /\ UNCHANGED <<campaign, email_logs, envVars>>
     \/ DbThrows(p, "s129")

\* Lines 97-101.
IncFailed(p) ==
  /\ task[p].pc = "s98"
  /\ \/ /\ campaign' = [campaign EXCEPT !.failed_count = @ + 1]
        /\ task' = Goto(p, "s104")
        /\ UNCHANGED <<campaign_recipients, email_logs, envVars>>
     \/ DbThrows(p, "s129")

\* Lines 103-104.
LogFailed(p) ==
  /\ task[p].pc = "s104"
  /\ \/ /\ email_logs' = logEmail(email_logs, Current(p), "failed", NULL, task[p].error)
        /\ task' = Goto(p, "s108")
        /\ UNCHANGED <<campaign, campaign_recipients, envVars>>
     \/ DbThrows(p, "s129")

\* A sleep that resolves at once.
sleepResolvesAtOnce(ms) == 0

\* Lines 275-277: sleep(ms) resolves from a timer of ms milliseconds; the
\* value is the time the caller has waited when it resumes.
sleep(ms) == ms

\* emailService.js 166-170: closeTransporter closes a transporter that is
\* there.
closeTransporter(transporter) ==
  IF transporter = "none" THEN "none" ELSE "closed"

\* Lines 107-115: the pacing sleep, then the next entry or, after the last
\* one, closeTransporter (112) and the call of line 115; the error of the
\* iteration goes out of scope.
Sleep(p) ==
  /\ task[p].pc = "s108"
  /\ task' = [task EXCEPT ![p].idx = @ + 1,
                          ![p].waited = @ + sleep(PacingMs),
                          ![p].error = NULL,
                          ![p].transporter =
                             IF task[p].idx < Len(task[p].recipients)
                               THEN @ ELSE closeTransporter(@),
                          ![p].pc = IF task[p].idx < Len(task[p].recipients)
                                    THEN "s71" ELSE "s115"]
  /\ UNCHANGED <<dbVars, envVars>>

\* Lines 111-123: close the transporter, complete the campaign, return.
Complete(p) ==
  /\ task[p].pc = "s115"
  /\ \/ /\ campaign' = updateCampaignStatus(campaign, "completed", NULL,
                                          NewDate(p, "s115"))
        /\ task' = Goto(p, "returned")
        /\ UNCHANGED <<campaign_recipients, email_logs, envVars>>
     \/ DbThrows(p, "s129")

\* Lines 124-135: the outer catch sets the campaign to failed (an error of
\* that update is swallowed) and rethrows.
OuterCatch(p) ==
  /\ task[p].pc = "s129"
  /\ \/ /\ campaign' = updateCampaignStatus(campaign, "failed", NULL, NULL)
        /\ task' = Goto(p, "threw")
        /\ UNCHANGED <<campaign_recipients, email_logs, envVars>>
     \/ /\ MayThrow(p)
        /\ task' = [task EXCEPT ![p].pc = "threw", ![p].faulted = TRUE]
        /\ UNCHANGED <<dbVars, envVars>>

\* ------------------------------------------------------------ environment

\* POST /api/smtp/configure stores credentials (not verified on save);
\* DELETE /api/smtp/config removes the row.
Configure(v) ==
  /\ smtp_config # v
  /\ smtp_config' = v
  /\ UNCHANGED <<dbVars, task, attempts, crashes, poll, render, tableVars, message>>

\* The process exits (pool error, SIGINT, SIGTERM): every task is gone, the
\* rows stay as they are.
Crash ==
  /\ crashes < MaxCrashes
  /\ \E p \in Tasks : task[p].pc # "idle"
  /\ crashes' = crashes + 1
  /\ task' = [p \in Tasks |-> IdleTask]
  /\ UNCHANGED <<dbVars, smtp_config, attempts, poll, render, tableVars, message>>

\* A direct call of the exported sendCampaign, whatever the campaign's status,
\* by a caller that is not running one.
Redispatch(p) ==
  /\ task[p].pc = "idle" \/ Finished(p)
  /\ task' = [task EXCEPT ![p] = [IdleTask EXCEPT !.pc = "s16", !.origin = "direct",
                                                  !.invokedOn = campaign.status]]
  /\ UNCHANGED <<dbVars, envVars>>

\* ------------------------------------- GET /api/campaigns/:id/progress

\* Line 39: LIMIT 10 of the recent sends.
RecentLimit == 10

\* A progress request that stores what it computed in the campaign row.
getCampaignProgressStoring ==
  /\ poll.pc # "p33"
  /\ poll' = [IdlePoll EXCEPT !.pc = "p33", !.arg = campaign,
                              !.progress = calculateProgress(campaign)]
  /\ campaign' = [campaign EXCEPT !.sent_count = calculateProgress(campaign).sent,
                                  !.status = "sending"]
  /\ UNCHANGED <<campaign_recipients, email_logs, smtp_config, task, attempts,
                 crashes, render, tableVars, message>>

\* Lines 10-30: a progress request begins (the one before it, if any, has
\* been answered); it reads the campaign row and computes the progress from
\* the row read, or the query throws.  The timing block computed at line 30
\* holds clock readings only and is left out.
getCampaignProgress ==
  /\ poll.pc # "p33"
  /\ \/ poll' = [IdlePoll EXCEPT !.pc = "p33", !.arg = campaign,
                                 !.progress = calculateProgress(campaign)]
     \/ poll' = [IdlePoll EXCEPT !.pc = "threw"]
  /\ UNCHANGED <<dbVars, smtp_config, task, attempts, crashes, render, tableVars, message>>

\* Lines 32-61: read the ten most recent send log entries and return, or the
\* query throws and the progress computed is lost.
getRecentSends ==
  /\ poll.pc = "p33"
  /\ \/ poll' = [poll EXCEPT !.pc = "returned",
                             !.recent = IF Len(email_logs) < RecentLimit
                                        THEN Len(email_logs) ELSE RecentLimit]
     \/ poll' = [IdlePoll EXCEPT !.pc = "threw"]
  /\ UNCHANGED <<dbVars, smtp_config, task, attempts, crashes, render, tableVars, message>>

\* The start route, one await at a time.
Route(p) == RouteGetCampaign(p) \/ RouteCheckSmtp(p) \/ RouteQueue(p)

\* sendCampaign on a campaign that has pending entries, one await at a time.
Dispatch(p) ==
  \/ GetCampaign(p) \/ GetPending(p)
  \/ CreateTransport(p) \/ TransportFailed(p) \/ MarkSending(p)
  \/ SendToRecipient(p) \/ LogSent(p) \/ MarkSent(p) \/ IncSent(p)
  \/ MarkFailed(p) \/ IncFailed(p) \/ LogFailed(p)
  \/ Sleep(p) \/ Complete(p) \/ OuterCatch(p)

\* The server: start requests and the dispatcher runs they schedule, two of
\* them interleaved.
Next ==
  \/ \E p \in Tasks : Route(p) \/ Dispatch(p) \/ CompleteEmpty(p)
  \/ \E v \in {"none", "bad", "good"} : Configure(v)

Spec == Init /\ [][Next]_vars

\* The same server with its background tasks scheduled and every transport
\* and storage call returning, with a result or with an error: a run that can
\* take a step of sendCampaign eventually takes one.
SpecScheduled ==
  Init /\ [][Next]_vars
       /\ \A p \in Tasks : WF_vars(Dispatch(p) \/ CompleteEmpty(p))

\* One caller at a time, with process exits and direct calls of sendCampaign.
\* A campaign is queued only with all its entries pending here, so the pending
\* list read at line 33 is never empty and lines 43-47 are never reached.
Caller == "t1"

NextDirect ==
  \/ Route(Caller) \/ Dispatch(Caller)
  \/ Redispatch(Caller)
  \/ \E v \in {"none", "bad", "good"} : Configure(v)
  \/ Crash

SpecDirect == Init /\ [][NextDirect]_vars

\* One start request and its run, with a client that polls the progress
\* route at any time.
NextPoll ==
  \/ Route(Caller) \/ Dispatch(Caller)
  \/ \E v \in {"none", "bad", "good"} : Configure(v)
  \/ getCampaignProgress
  \/ getRecentSends

SpecPoll == Init /\ [][NextPoll]_vars

\* calculateProgress on its own: it is called with a campaign row whose
\* counters are drawn from the bounded ranges, sent + failed <= total.
InitProgress ==
  /\ campaign = [status |-> "draft", recipient_count |-> NumRecipients,
                 sent_count |-> 0, failed_count |-> 0,
                 started_at |-> NULL, completed_at |-> NULL]
  /\ campaign_recipients =
       [r \in RecipientIds |->
          [status |-> "pending", error_message |-> NULL, sent_at |-> NULL]]
  /\ email_logs = <<>>
  /\ smtp_config = "none"
  /\ task = [p \in Tasks |-> IdleTask]
  /\ attempts = [r \in RecipientIds |-> 0]
  /\ crashes = 0
  /\ render = NoRender
  /\ TablesUnused
  /\ \E total \in 0..MaxTotal, failed \in 0..MaxFailed :
        /\ failed <= total
        /\ \E sent \in 0..(total - failed) :
             poll = [IdlePoll EXCEPT
                       !.pc = "call",
                       !.arg = [status |-> "sending", recipient_count |-> total,
                                sent_count |-> sent, failed_count |-> failed]]

\* Lines 68-92: the call returns the progress object.
CallCalculateProgress ==
  /\ poll.pc = "call"
  /\ poll' = [poll EXCEPT !.pc = "done", !.progress = calculateProgress(poll.arg)]
  /\ UNCHANGED <<dbVars, smtp_config, task, attempts, crashes, render, tableVars, message>>

SpecProgress == InitProgress /\ [][CallCalculateProgress]_vars

\* replaceTemplateVariables on its own.  A template is a sequence of parts:
\* placeholders, plain text and malformed placeholders (single braces, an
\* opening with one closing brace, an opening with none).  A field map has
\* distinct keys; its values are empty, plain, or hold a dollar pattern or a
\* placeholder.
Placeholder(key) == <<"{", "{">> \o key \o <<"}", "}">>

PlaceholderNames == {<<"a">>, <<"A">>}

MalformedParts == {<<"{", "a", "}">>, <<"{", "{", "a", "}">>, <<"{", "{", "a">>}

TemplateParts ==
  {Placeholder(k) : k \in PlaceholderNames} \cup {<<"x">>} \cup MalformedParts

FieldNames == {<<"a">>, <<"A">>, <<".">>}

PlainValues == {<<>>, <<"v">>, <<"w">>}

FieldValues == PlainValues \cup {<<"$", "&">>, Placeholder(<<"A">>)}

Templates == UNION {[1..n -> TemplateParts] : n \in 0..MaxParts}

FieldMaps ==
  {d \in UNION {[1..n -> FieldNames \X FieldValues] : n \in 0..MaxFields} :
     \A i, j \in 1..Len(d) : i # j => d[i][1] # d[j][1]}

\* The text of a template: its parts one after the other.
RECURSIVE Flatten(_)
Flatten(parts) ==
  IF parts = <<>> THEN <<>> ELSE Head(parts) \o Flatten(Tail(parts))

InitRender ==
  /\ campaign = [status |-> "draft", recipient_count |-> NumRecipients,
                 sent_count |-> 0, failed_count |-> 0,
                 started_at |-> NULL, completed_at |-> NULL]
  /\ campaign_recipients =
       [r \in RecipientIds |->
          [status |-> "pending", error_message |-> NULL, sent_at |-> NULL]]
  /\ email_logs = <<>>
  /\ smtp_config = "none"
  /\ task = [p \in Tasks |-> IdleTask]
  /\ attempts = [r \in RecipientIds |-> 0]
  /\ crashes = 0
  /\ poll = IdlePoll
  /\ TablesUnused
  /\ \E parts \in Templates, data \in FieldMaps :
        render = [pc |-> "call", parts |-> parts, data |-> data, result |-> <<>>]

\* Lines 204-219: the call returns the rendered text.
CallRender ==
  /\ render.pc = "call"
  /\ render' = [render EXCEPT
                  !.pc = "done",
                  !.result = replaceTemplateVariables(Flatten(render.parts),
                                                      render.data)]
  /\ UNCHANGED <<dbVars, smtp_config, task, attempts, crashes, poll, tableVars, message>>

SpecRender == InitRender /\ [][CallRender]_vars

\* replaceTemplateVariables on templates that are any text of braces and
\* letters, up to MaxChars characters, with field maps whose values hold no
\* brace.
MaxChars == 10

BraceAlphabet == {"{", "}", "a"}

RawTemplates == UNION {[1..n -> BraceAlphabet] : n \in 0..MaxChars}

BracelessMaps == {<<>>} \cup {<<<<<<"a">>, v>>>> : v \in PlainValues}

InitRaw ==
  /\ campaign = [status |-> "draft", recipient_count |-> NumRecipients,
                 sent_count |-> 0, failed_count |-> 0,
                 started_at |-> NULL, completed_at |-> NULL]
  /\ campaign_recipients =
       [r \in RecipientIds |->
          [status |-> "pending", error_message |-> NULL, sent_at |-> NULL]]
  /\ email_logs = <<>>
  /\ smtp_config = "none"
  /\ task = [p \in Tasks |-> IdleTask]
  /\ attempts = [r \in RecipientIds |-> 0]
  /\ crashes = 0
  /\ poll = IdlePoll
  /\ TablesUnused
  /\ \E text \in RawTemplates, data \in BracelessMaps :
        render = [pc |-> "call", parts |-> <<text>>, data |-> data,
                  result |-> <<>>]

SpecRaw == InitRaw /\ [][CallRender]_vars

\* ------------------------------------------------------------ properties

InLoop(p) ==
  task[p].pc \in {"s71", "s184", "s75", "s81", "s92", "s98", "s104", "s108"}

NonePending == \A r \in RecipientIds : campaign_recipients[r].status # "pending"
AllPending == \A r \in RecipientIds : campaign_recipients[r].status = "pending"

C2_TerminalStatusNeverChanges ==
  [][\A r \in RecipientIds :
       campaign_recipients[r].status # "pending" =>
         campaign_recipients'[r].status = campaign_recipients[r].status]_vars

\* C3: in every state sent_count and failed_count equal the numbers of sent
\* and failed entries, and with the pending entries they add up to
\* recipient_count.
C3_CountersEqualLedger ==
  /\ campaign.sent_count = CountStatus(campaign_recipients, "sent")
  /\ campaign.failed_count = CountStatus(campaign_recipients, "failed")
  /\ campaign.sent_count + campaign.failed_count
       + CountStatus(campaign_recipients, "pending") = campaign.recipient_count

\* C4: of two interleaved start requests for the same draft campaign at most
\* one gets a dispatcher loop, and no recipient gets more than one send
\* attempt.
C4_OneLoopPerCampaign ==
  /\ Cardinality({p \in Tasks : task[p].origin = "route" /\ task[p].idx > 0}) <= 1
  /\ \A r \in RecipientIds : attempts[r] <= 1

\* The entries for which the send attempt of task p failed.
SendFailures(p) ==
  {r \in RecipientIds : \E i \in 1..Len(task[p].results[r]) :
                           task[p].results[r][i] \in SendErrors}

\* No other start request has been accepted and no other call of sendCampaign
\* made: the run of task p is the only one the campaign has had.
OnlyRun(p) ==
  \A q \in Tasks \ {p} : task[q].response # "200" /\ task[q].origin # "direct"

\* C5: a failed send leads to the catch of the loop body and never out of the
\* loop; there the recipient is marked failed with the error text of the
\* attempt, failed_count goes up by one and a failed log entry is written; the
\* run then goes on with the next entry, and the step that ends it sets the
\* campaign to completed.  When no other run touched the campaign, the entry is
\* still failed with that text when the run has returned.
C5_State ==
  \A p \in Tasks :
    /\ (SendFailures(p) # {} /\ ~task[p].faulted) => task[p].pc \notin {"s129", "threw"}
    /\ (task[p].pc = "returned" /\ ~task[p].faulted /\ OnlyRun(p)) =>
         /\ \A r \in SendFailures(p) :
              /\ campaign_recipients[r].status = "failed"
              /\ campaign_recipients[r].error_message \in SendErrors
         /\ campaign.failed_count = Cardinality(SendFailures(p))
         /\ campaign.status = "completed"

C5_Step ==
  \A p \in Tasks :
    LET t == task[p]
        u == task'[p]
        r == t.recipients[t.idx]
    IN /\ (t.pc = "s71" /\ u.pc # "s184" /\ u.pc # "s71") =>
            /\ u.pc = "s92"
            /\ u.error \in SendErrors
            /\ u.results[r] = Append(t.results[r], u.error)
       /\ (t.pc = "s92" /\ u.pc = "s98") =>
            /\ campaign_recipients'[r].status = "failed"
            /\ campaign_recipients'[r].error_message = t.error
       /\ (t.pc = "s98" /\ u.pc = "s104") =>
            campaign'.failed_count = campaign.failed_count + 1
       /\ (t.pc = "s104" /\ u.pc = "s108") =>
            /\ Len(email_logs') = Len(email_logs) + 1
            /\ email_logs'[Len(email_logs')].recipient_id = r
            /\ email_logs'[Len(email_logs')].error_message = t.error
       /\ (t.pc = "s108" /\ u.pc # "s108") =>
            IF t.idx < Len(t.recipients)
            THEN u.pc = "s71" /\ u.idx = t.idx + 1
            ELSE u.pc = "s115"
       /\ (t.pc = "s115" /\ u.pc = "returned") => campaign'.status = "completed"

C5_SendFailureDoesNotAbort == []C5_State /\ [][C5_Step]_vars

\* A run whose first send failed and whose second succeeded has returned.
C5_Witness ==
  \E p \in Tasks :
    /\ task[p].pc = "returned" /\ ~task[p].faulted /\ OnlyRun(p)
    /\ Len(task[p].recipients) > 1
    /\ task[p].recipients[1] \in SendFailures(p)
    /\ task[p].results[task[p].recipients[2]] = <<"sent">>
    /\ campaign.status = "completed"

\* C6: when a run over all N entries has returned without a storage error, no
\* entry is pending and sent_count + failed_count = N.
C6_RunAccountsForAll ==
  \A p \in Tasks :
    (task[p].pc = "returned" /\ ~task[p].faulted
       /\ task[p].startPending = RecipientIds) =>
      /\ NonePending
      /\ campaign.sent_count + campaign.failed_count = Cardinality(task[p].startPending)

\* C7: a run whose transport could not be created or verified makes no send
\* attempt and goes only to the two status updates; none of its steps changes
\* a recipient entry, a counter or the send log, and without a storage error
\* each of the two updates leaves the campaign failed.  When no other run touched
\* the campaign, it has then status failed, all entries pending, both
\* counters 0 and an empty send log.
C7_State ==
  \A p \in Tasks :
    task[p].noTransport =>
      /\ task[p].results = NoAttempts
      /\ task[p].pc \in {"s58", "s129", "threw"}
      /\ (task[p].pc = "threw" /\ ~task[p].faulted /\ OnlyRun(p)) =>
           /\ campaign.status = "failed"
           /\ AllPending
           /\ campaign.sent_count = 0 /\ campaign.failed_count = 0
           /\ email_logs = <<>>
           /\ \A r \in RecipientIds : attempts[r] = 0

C7_Step ==
  \A p \in Tasks :
    (task'[p].noTransport /\ task'[p] # task[p]) =>
      /\ campaign_recipients' = campaign_recipients
      /\ email_logs' = email_logs
      /\ attempts' = attempts
      /\ campaign'.sent_count = campaign.sent_count
      /\ campaign'.failed_count = campaign.failed_count
      /\ (task[p].pc \in {"s58", "s129"} /\ ~task'[p].faulted) =>
           campaign'.status = "failed"

C7_NoTransportFailsCampaign == []C7_State /\ [][C7_Step]_vars

\* A run has ended after its transport could not be established.
C7_Witness ==
  \E p \in Tasks :
    /\ task[p].pc = "threw" /\ task[p].noTransport /\ ~task[p].faulted
    /\ OnlyRun(p)
    /\ campaign.status = "failed" /\ AllPending

\* C8: when a campaign is failed because a run could not establish the
\* transport, its entries are all pending and the stored credentials are good,
\* a start request that reads it is not rejected: it goes on to queue the
\* campaign.
C8_FailedCampaignIsRetryable ==
  [][\A q \in Tasks :
       ( /\ task[q].pc = "idle"
         /\ task'[q].origin = "route"
         /\ ~task'[q].faulted
         /\ campaign.status = "failed"
         /\ smtp_config = "good"
         /\ AllPending
         /\ \E p \in Tasks :
              task[p].pc = "threw" /\ task[p].noTransport /\ ~task[p].faulted )
       => task'[q].pc = "r411"]_vars

\* C9: no step of a sendCampaign call made on a completed campaign changes the
\* campaign row, a recipient entry or the send log, or makes a send attempt.
C9_DispatchOfCompletedIsNoOp ==
  [][\A p \in Tasks :
       ( /\ task[p].origin = "direct"
         /\ task[p].invokedOn = "completed"
         /\ ~task'[p].faulted
         /\ task'[p] # task[p] )
       => UNCHANGED <<campaign, campaign_recipients, email_logs, attempts>>]_vars

\* C10: when a sendCampaign call made after a process exit on a campaign left
\* in sending has ended (without a storage or transport error), the campaign
\* is completed, no entry is pending, and no entry has had a second send
\* attempt.
C10_RerunAfterCrashResumes ==
  \A p \in Tasks :
    ( /\ task[p].origin = "direct"
      /\ task[p].invokedOn = "sending"
      /\ crashes > 0
      /\ task[p].pc \in {"returned", "threw"}
      /\ ~task[p].faulted /\ ~task[p].noTransport )
    => /\ campaign.status = "completed"
       /\ NonePending
       /\ \A r \in RecipientIds : attempts[r] <= 1

\* The run of task p has made a send attempt.
HasSent(p) == \E r \in RecipientIds : task[p].results[r] # <<>>

\* C11: whenever a run that has already made a send attempt is about to make
\* the next one, it has spent at least the pacing interval in sleep since the
\* start of the earlier attempt, whether that attempt succeeded or failed and
\* whatever the other task does.
C11_PacingBetweenSends ==
  \A p \in Tasks :
    (task[p].pc = "s71" /\ HasSent(p)) => task[p].waited >= PacingMs

\* A run is about to make its second attempt after a failed first one.
C11_Witness ==
  \E p \in Tasks :
    /\ task[p].pc = "s71" /\ task[p].idx = 2
    /\ task[p].recipients[1] \in SendFailures(p)
    /\ task[p].waited = PacingMs

\* The status changes of the campaign state machine.
AllowedStatusChanges ==
  {<<"draft", "queued">>, <<"queued", "sending">>,
   <<"sending", "completed">>, <<"sending", "failed">>,
   <<"draft", "cancelled">>, <<"queued", "cancelled">>}

\* C12: every step of the start route or of sendCampaign that changes the
\* campaign's status makes one of the changes of the state machine; so a
\* completed campaign never becomes failed and none in sending, completed or
\* failed becomes cancelled.
C12_OnlyStateMachineChanges ==
  [][campaign'.status # campaign.status =>
       <<campaign.status, campaign'.status>> \in AllowedStatusChanges]_vars

\* C13: a start request that reads a campaign that is not a draft, or finds
\* no smtp_configs row, answers with an error in that very step and leaves
\* the campaign row alone; a request that was answered with an error stays
\* answered, has no dispatcher run (no pending list read, no loop index, no
\* send attempt), and no step of it has changed the campaign's status.
C13_State ==
  \A p \in Tasks :
    task[p].response \in {"400", "500"} =>
      /\ task[p].pc = "responded"
      /\ task[p].recipients = <<>> /\ task[p].idx = 0
      /\ task[p].results = NoAttempts

C13_Step ==
  \A p \in Tasks :
    /\ ( /\ task[p].pc = "idle" /\ task'[p].origin = "route"
         /\ campaign.status # "draft" )
       => /\ task'[p].pc = "responded"
          /\ task'[p].response \in {"400", "500"}
          /\ task'[p].faulted \/ task'[p].error = CannotSendError
          /\ campaign' = campaign
    /\ ( /\ task[p].pc = "r411" /\ task'[p].pc \notin {"r411", "idle"}
         /\ smtp_config = "none" )
       => /\ task'[p].pc = "responded"
          /\ task'[p].response \in {"400", "500"}
          /\ task'[p].faulted \/ task'[p].error = NoSmtpError
          /\ campaign' = campaign
    /\ ( /\ task'[p].response \in {"400", "500"}
         /\ task'[p] # task[p] )
       => campaign'.status = campaign.status

C13_BadStartIsRejected == []C13_State /\ [][C13_Step]_vars

\* One request was accepted and its run has begun; the other, made on the
\* campaign that was then no longer a draft, was rejected and has no run.
C13_Witness ==
  \E p, q \in Tasks :
    /\ task[p].response = "200" /\ task[p].idx > 0
    /\ task[q].response = "400" /\ task[q].error = CannotSendError
    /\ task[q].pc = "responded" /\ task[q].recipients = <<>>
    /\ campaign.status = "sending"

\* The positions of sendCampaign.
InDispatch(p) == task[p].pc \notin {"idle", "r411", "r424", "responded"}

\* C14: the step of a start request that answers 200 is the step that sets
\* the campaign to queued; it leaves the task at the first line of
\* sendCampaign, with no send attempt made; and a run scheduled by a start
\* request never stands anywhere in sendCampaign without the 200 answer
\* having been given.
C14_State ==
  \A p \in Tasks :
    (task[p].origin = "route" /\ InDispatch(p)) => task[p].response = "200"

C14_Step ==
  \A p \in Tasks :
    (task[p].response # "200" /\ task'[p].response = "200") =>
      /\ campaign'.status = "queued"
      /\ task'[p].pc = "s16"
      /\ task'[p].results = NoAttempts /\ task'[p].idx = 0
      /\ attempts' = attempts

C14_AnswerBeforeLoop == []C14_State /\ [][C14_Step]_vars

\* The 200 answer is out, the campaign is queued and sendCampaign has not
\* run a line yet.
C14_Witness ==
  \E p \in Tasks :
    /\ task[p].response = "200" /\ task[p].pc = "s16"
    /\ campaign.status = "queued"
    /\ \A r \in RecipientIds : attempts[r] = 0

\* C15: when the run scheduled by a start request could not establish its
\* transport, the answer of that start request is an error, not the 200.
C15_TransportFailureInAnswer ==
  \A p \in Tasks :
    (task[p].origin = "route" /\ task[p].noTransport) =>
      task[p].response \in {"400", "500"}

\* The row updates of a loop iteration and the line each goes on to when it
\* succeeds.
AfterRowUpdate ==
  [s75 |-> "s81", s81 |-> "s108", s92 |-> "s98", s98 |-> "s104"]

\* C16: when an UPDATE of a recipient entry or of the campaign's counters
\* throws in a loop iteration, the run leaves the loop for the outer catch in
\* that step (so it makes no further send attempt), and the step that ends
\* such a run leaves the campaign failed.
C16_StorageErrorAbortsLoop ==
  [][\A p \in Tasks :
       /\ ( /\ task[p].pc \in DOMAIN AfterRowUpdate
            /\ task'[p].pc \notin {task[p].pc, AfterRowUpdate[task[p].pc], "idle"} )
          => task'[p].pc = "s129"
       /\ ( /\ task[p].pc = "s129" /\ task'[p].pc = "threw"
            /\ task[p].idx > 0 /\ task[p].error = DbError )
          => campaign'.status = "failed"]_vars

\* The send log entries of recipient r, in insert order.
LogsOf(r) == SelectSeq(email_logs, LAMBDA e : e.recipient_id = r)

\* The log entry that belongs to a send attempt for r with outcome res.
ExpectedLog(r, res) ==
  IF res = "sent"
  THEN [recipient_id |-> r, status |-> "sent",
        message_id |-> MessageId, error_message |-> NULL]
  ELSE [recipient_id |-> r, status |-> "failed",
        message_id |-> NULL, error_message |-> res]

\* C17: whenever the only run of a campaign stands between two iterations or
\* has left the loop, the send log holds for every recipient exactly one
\* entry per send attempt made for it, a sent entry with the message id for a
\* successful attempt and a failed entry with the error text of the attempt
\* for a failed one; when the run has returned the log has as many entries as
\* entries were pending at its start.
C17_OneLogEntryPerAttempt ==
  \A p \in Tasks :
    (task[p].pc \in {"s108", "s115", "returned"} /\ OnlyRun(p)) =>
      /\ \A r \in RecipientIds :
           LogsOf(r) = [i \in 1..Len(task[p].results[r]) |->
                          ExpectedLog(r, task[p].results[r][i])]
      /\ task[p].pc = "returned" =>
           Len(email_logs) = Cardinality(task[p].startPending)

\* C18: no step of a progress request changes the campaign row, a recipient
\* entry or the send log, at whatever point of the campaign's life and of a
\* running dispatcher it is taken.
C18_ProgressIsReadOnly ==
  [][poll' # poll => UNCHANGED <<campaign, campaign_recipients, email_logs>>]_vars

\* A progress request has been answered from a row read in the middle of a
\* run that is still in its loop.
C18_Witness ==
  /\ poll.pc = "returned"
  /\ poll.arg.status = "sending" /\ poll.progress.pending = 1
  /\ InLoop(Caller)
  /\ campaign.status = "sending"

\* x / y * 100 rounded to one decimal (a half going up), in tenths.
RoundedPercentTenths(x, y) == (2000 * x + y) \div (2 * y)

\* C19: the percentage calculateProgress returns (in tenths) is
\* (sent + failed) / total * 100 rounded to one decimal when total > 0 and 0
\* when total = 0, and the success rate is 0 when sent + failed = 0.
C19_PercentageIsRounded ==
  poll.pc = "done" =>
    LET total == poll.arg.recipient_count
        done == poll.arg.sent_count + poll.arg.failed_count
    IN /\ total > 0 => poll.progress.percentage = RoundedPercentTenths(done, total)
       /\ total = 0 => poll.progress.percentage = 0
       /\ done = 0 => poll.progress.success_rate = 0

\* The keys of a field map, and the value it holds for a key.
KeysOf(data) == {data[i][1] : i \in 1..Len(data)}
ValueOf(data, key) == data[CHOOSE i \in 1..Len(data) : data[i][1] = key][2]

IsPlaceholder(part) == \E k \in PlaceholderNames : part = Placeholder(k)
NameOf(part) == CHOOSE k \in PlaceholderNames : part = Placeholder(k)

\* The template's parts are placeholders whose keys the field map has, and
\* plain text; the values of the field map are plain.
PresentKeysPlainValues(parts, data) ==
  /\ \A i \in 1..Len(parts) :
       \/ parts[i] = <<"x">>
       \/ IsPlaceholder(parts[i]) /\ NameOf(parts[i]) \in KeysOf(data)
  /\ \A i \in 1..Len(data) : data[i][2] \in PlainValues

\* The template with each placeholder replaced by the value of its own key.
RECURSIVE Substituted(_, _)
Substituted(parts, data) ==
  IF parts = <<>> THEN <<>>
  ELSE (IF IsPlaceholder(Head(parts)) THEN ValueOf(data, NameOf(Head(parts)))
        ELSE Head(parts)) \o Substituted(Tail(parts), data)

\* C20: for a template of plain text and placeholders whose keys are all in
\* the field map, and plain values, the rendered text is the template with
\* every placeholder replaced by the value of exactly its own key.
C20_PresentKeysSubstituted ==
  (render.pc = "done" /\ PresentKeysPlainValues(render.parts, render.data)) =>
    render.result = Substituted(render.parts, render.data)

\* The template without its placeholders, the other parts as they are.
WithoutPlaceholders(parts) ==
  Flatten(SelectSeq(parts, LAMBDA part : ~IsPlaceholder(part)))

\* No placeholder of the template has its key in the field map.
AllKeysAbsent(parts, data) ==
  \A i \in 1..Len(parts) :
    IsPlaceholder(parts[i]) => NameOf(parts[i]) \notin KeysOf(data)

\* C21: for a template none of whose placeholders has its key in the field
\* map (an empty field map in particular), the rendered text is the template
\* with every placeholder deleted and every other part left as it is.
C21_AbsentKeysDeleted ==
  (render.pc = "done" /\ AllKeysAbsent(render.parts, render.data)) =>
    render.result = WithoutPlaceholders(render.parts)

Rendered(parts, data) ==
  Flatten([i \in 1..Len(parts) |->
             IF IsPlaceholder(parts[i])
               THEN IF NameOf(parts[i]) \in KeysOf(data)
                      THEN ValueOf(data, NameOf(parts[i]))
                      ELSE <<>>
               ELSE parts[i]])

\* The keys of the field map are names and its values are plain.
PlainData(data) ==
  \A i \in 1..Len(data) :
    data[i][1] \in PlaceholderNames /\ data[i][2] \in PlainValues

HasMalformed(parts) == \E i \in 1..Len(parts) : parts[i] \in MalformedParts

\* C22: malformed placeholder syntax (single braces, or an opening {{ without
\* a closing }}) stays in the output verbatim: with a field map of plain keys
\* and plain values, the output is the template with its well-formed
\* placeholders substituted or deleted and every other part unchanged.
C22_MalformedLeftVerbatim ==
  (render.pc = "done" /\ HasMalformed(render.parts)
     /\ PlainData(render.data)) =>
    render.result = Rendered(render.parts, render.data)

\* C25: whenever the campaign's status is completed, its completed_at is
\* recorded (non-null), also when the run found nothing pending and completed
\* at once.
C25_CompletedAtRecorded ==
  campaign.status = "completed" => campaign.completed_at # NULL

\* C26: started_at and completed_at are each written at most once: once
\* non-null, no step changes the value.
C26_TimestampsWrittenOnce ==
  [][/\ campaign.started_at # NULL => campaign'.started_at = campaign.started_at
     /\ campaign.completed_at # NULL =>
          campaign'.completed_at = campaign.completed_at]_vars

\* C27: a recipient entry has an error_message only if its status is failed,
\* and a sent_at only if its status is sent.
C27_ErrorAndSentAtMatchStatus ==
  \A r \in RecipientIds :
    /\ campaign_recipients[r].error_message # NULL =>
         campaign_recipients[r].status = "failed"
    /\ campaign_recipients[r].sent_at # NULL =>
         campaign_recipients[r].status = "sent"

\* ------------------------------------------------ several campaigns

\* The tables with the rows of several campaigns of several users.  Every
\* query is modelled by its WHERE clause over the whole table; storage errors
\* other than foreign-key violations are left to the specifications of one
\* campaign.  The columns are those that the queries of the start route, of
\* sendCampaign and of the delete route filter on or write.
CampaignIds == {1, 2}
UserIds == {1, 2}

AllRecipientIds == 1..(NumRecipients * Cardinality(CampaignIds))

\* No user: the userId of a request that has not been made.
NoUser == 0

\* Line 22: the error thrown when the SELECT of line 16 returns no row.
NotFoundError == "Campaign not found"

IdleRun == [pc |-> "idle", userId |-> NoUser, response |-> NULL,
            recipients |-> <<>>, idx |-> 0, touched |-> {}, error |-> NULL]

IdleDeletion == [pc |-> "idle", campaignId |-> 0, userId |-> NoUser,
                 response |-> NULL, loopRunning |-> FALSE]

\* Campaign c belongs to user c; the recipient ids of the campaigns alternate,
\* as they do when campaigns are created side by side.
InitCampaigns ==
  /\ campaign = [status |-> "draft", recipient_count |-> NumRecipients,
                 sent_count |-> 0, failed_count |-> 0,
                 started_at |-> NULL, completed_at |-> NULL]
  /\ campaign_recipients =
       [r \in RecipientIds |->
          [status |-> "pending", error_message |-> NULL, sent_at |-> NULL]]
  /\ email_logs = <<>>
  /\ smtp_config \in {"none", "bad", "good"}
  /\ task = [p \in Tasks |-> IdleTask]
  /\ attempts = [r \in RecipientIds |-> 0]
  /\ crashes = 0
  /\ poll = IdlePoll
  /\ render = NoRender
  /\ db = [campaigns |->
             [c \in CampaignIds |->
                [user_id |-> c, status |-> "draft", sent_count |-> 0,
                 failed_count |-> 0]],
           campaign_recipients |->
             [r \in AllRecipientIds |->
                [campaign_id |-> ((r - 1) % Cardinality(CampaignIds)) + 1,
                 status |-> "pending"]],
           email_logs |-> {}]
  /\ run = [c \in CampaignIds |-> IdleRun]
  /\ deletion = IdleDeletion
  /\ creation = NoTables
  /\ message = NoTables

oneVars == <<campaign, campaign_recipients, email_logs, smtp_config, task,
             attempts, crashes, poll, render, message>>

\* SELECT ... FROM campaigns WHERE id = $1 AND user_id = $2: the ids of the
\* rows selected.
CampaignsOfUser(id, userId) ==
  {i \in DOMAIN db.campaigns : i = id /\ db.campaigns[i].user_id = userId}

\* UPDATE campaigns SET ... WHERE id = $n: the ids of the rows updated.
CampaignsById(id) == {i \in DOMAIN db.campaigns : i = id}

\* UPDATE campaign_recipients SET ... WHERE id = $n: the ids of the rows
\* updated.
RecipientsById(id) == {i \in DOMAIN db.campaign_recipients : i = id}

\* The pending rows of every campaign.
PendingOfAnyCampaign(rows, campaignId) ==
  OrderById({r \in DOMAIN rows : rows[r].status = "pending"})

\* Lines 33-38: SELECT ... FROM campaign_recipients WHERE campaign_id = $1
\* AND status = 'pending' ORDER BY id.
PendingOfCampaign(rows, campaignId) ==
  OrderById({r \in DOMAIN rows :
               rows[r].campaign_id = campaignId /\ rows[r].status = "pending"})

\* The campaigns that own the given recipient rows.
OwnersOf(rids) == {db.campaign_recipients[r].campaign_id : r \in rids}

\* UPDATE campaigns SET column = column + 1 WHERE id = $1.
AddOne(campaignId, column) ==
  [db EXCEPT !.campaigns =
     [i \in DOMAIN db.campaigns |->
        IF i \in CampaignsById(campaignId)
          THEN [db.campaigns[i] EXCEPT ![column] = @ + 1]
          ELSE db.campaigns[i]]]

\* The tables after an UPDATE of the campaign_recipients rows ids.
SetRecipients(ids, status) ==
  [db EXCEPT !.campaign_recipients =
     [i \in DOMAIN db.campaign_recipients |->
        IF i \in ids THEN [db.campaign_recipients[i] EXCEPT !.status = status]
        ELSE db.campaign_recipients[i]]]

\* updateCampaignStatus (lines 228-249) over the table.
SetStatus(campaignId, status) ==
  [db EXCEPT !.campaigns =
     [i \in DOMAIN db.campaigns |->
        IF i \in CampaignsById(campaignId)
          THEN [db.campaigns[i] EXCEPT !.status = status]
          ELSE db.campaigns[i]]]

\* email_logs.campaign_id and recipient_id reference existing rows.
ForeignKeysHold(campaignId, recipientId) ==
  /\ campaignId \in DOMAIN db.campaigns
  /\ recipientId \in DOMAIN db.campaign_recipients

\* logEmail: INSERT INTO email_logs (...).
InsertLog(campaignId, recipientId, status) ==
  [db EXCEPT !.email_logs =
     @ \cup {[campaign_id |-> campaignId, recipient_id |-> recipientId,
              status |-> status]}]

\* The run of campaign c moves to pc `to`; its queries have selected or written
\* rows of the campaigns `owners`.
Moved(c, to, owners) ==
  [run EXCEPT ![c].pc = to, ![c].touched = @ \cup owners]

\* campaigns.js 387-408: the start route reads the campaign of the user.
StartSelect(c, u) ==
  /\ run[c].pc = "idle"
  /\ LET rows == CampaignsOfUser(c, u)
     IN run' = [run EXCEPT
          ![c].userId = u,
          ![c].touched = @ \cup rows,
          ![c].pc = IF rows # {} /\ StartableStatus(db.campaigns[c].status)
                    THEN "r411" ELSE "responded",
          ![c].response = IF rows = {} THEN "404"
                          ELSE IF StartableStatus(db.campaigns[c].status)
                               THEN @ ELSE "400"]
  /\ UNCHANGED <<oneVars, db, deletion, creation>>

\* campaigns.js 410-421.
StartCheckSmtp(c) ==
  /\ run[c].pc = "r411"
  /\ run' = [run EXCEPT
       ![c].pc = IF smtp_config = "none" THEN "responded" ELSE "r424",
       ![c].response = IF smtp_config = "none" THEN "400" ELSE @]
  /\ UNCHANGED <<oneVars, db, deletion, creation>>

\* campaigns.js 423-446: UPDATE campaigns SET status = 'queued' WHERE id = $2,
\* schedule sendCampaign, answer 200.
StartQueue(c) ==
  /\ run[c].pc = "r424"
  /\ db' = SetStatus(c, "queued")
  /\ run' = [Moved(c, "s16", CampaignsById(c)) EXCEPT ![c].response = "200"]
  /\ UNCHANGED <<oneVars, deletion, creation>>

\* Lines 16-30: no row throws 'Campaign not found', a status other than
\* queued throws too.
ReadCampaign(c) ==
  /\ run[c].pc = "s16"
  /\ LET rows == CampaignsOfUser(c, run[c].userId)
     IN run' = [Moved(c, IF rows # {} /\ DispatchableStatus(db.campaigns[c].status)
                         THEN "s33" ELSE "s129", rows)
                  EXCEPT ![c].error = IF rows = {} THEN NotFoundError
                                      ELSE IF DispatchableStatus(db.campaigns[c].status)
                                           THEN @ ELSE NotQueuedError]
  /\ UNCHANGED <<oneVars, db, deletion, creation>>

\* Lines 32-49.
ReadPending(c) ==
  /\ run[c].pc = "s33"
  /\ LET rs == PendingOfCampaign(db.campaign_recipients, c)
     IN run' = [Moved(c, IF Len(rs) = 0 THEN "s45" ELSE "s54",
                      OwnersOf({rs[i] : i \in 1..Len(rs)}))
                  EXCEPT ![c].recipients = rs]
  /\ UNCHANGED <<oneVars, db, deletion, creation>>

\* Lines 43-47.
SetCompletedEmpty(c) ==
  /\ run[c].pc = "s45"
  /\ db' = SetStatus(c, "completed")
  /\ run' = Moved(c, "returned", CampaignsById(c))
  /\ UNCHANGED <<oneVars, deletion, creation>>

\* Lines 51-56: createTransporter reads the smtp_configs row of the user.
OpenTransport(c) ==
  /\ run[c].pc = "s54"
  /\ \/ smtp_config = "good" /\ run' = Moved(c, "s63", {})
     \/ run' = Moved(c, "s58", {})
  /\ UNCHANGED <<oneVars, db, deletion, creation>>

\* Lines 57-59.
SetTransportFailed(c) ==
  /\ run[c].pc = "s58"
  /\ db' = SetStatus(c, TransportFailureStatus)
  /\ run' = Moved(c, "s129", CampaignsById(c))
  /\ UNCHANGED <<oneVars, deletion, creation>>

\* Line 63.
SetSending(c) ==
  /\ run[c].pc = "s63"
  /\ db' = SetStatus(c, "sending")
  /\ run' = [Moved(c, "s71", CampaignsById(c)) EXCEPT ![c].idx = 1]
  /\ UNCHANGED <<oneVars, deletion, creation>>

CurrentOf(c) == run[c].recipients[run[c].idx]

\* Lines 71 and 146-181: the message is built from the recipient row read at
\* line 33 and the campaign row read at line 16; sendEmail accepts or throws.
Send(c) ==
  /\ run[c].pc = "s71"
  /\ \/ run' = Moved(c, "s184", {})
     \/ run' = Moved(c, "s92", {})
  /\ UNCHANGED <<oneVars, db, deletion, creation>>

\* Lines 183-193: the INSERT throws when the campaign or the recipient row is
\* gone.
InsertSentLog(c) ==
  /\ run[c].pc = "s184"
  /\ IF ForeignKeysHold(c, CurrentOf(c))
       THEN /\ db' = InsertLog(c, CurrentOf(c), "sent")
            /\ run' = Moved(c, "s75", {c})
       ELSE /\ run' = Moved(c, "s92", {})
            /\ UNCHANGED db
  /\ UNCHANGED <<oneVars, deletion, creation>>

\* Lines 74-78: UPDATE campaign_recipients SET status = 'sent' WHERE id = $2.
SetRecipientSent(c) ==
  /\ run[c].pc = "s75"
  /\ db' = SetRecipients(RecipientsById(CurrentOf(c)), "sent")
  /\ run' = Moved(c, "s81", OwnersOf(RecipientsById(CurrentOf(c))))
  /\ UNCHANGED <<oneVars, deletion, creation>>

\* Lines 80-84: UPDATE campaigns SET sent_count = sent_count + 1 WHERE id = $1.
CountSent(c) ==
  /\ run[c].pc = "s81"
  /\ db' = AddOne(c, "sent_count")
  /\ run' = Moved(c, "s108", CampaignsById(c))
  /\ UNCHANGED <<oneVars, deletion, creation>>

\* Lines 91-95: UPDATE campaign_recipients SET status = 'failed' WHERE id = $3.
SetRecipientFailed(c) ==
  /\ run[c].pc = "s92"
  /\ db' = SetRecipients(RecipientsById(CurrentOf(c)), "failed")
  /\ run' = Moved(c, "s98", OwnersOf(RecipientsById(CurrentOf(c))))
  /\ UNCHANGED <<oneVars, deletion, creation>>

\* Lines 97-101.
CountFailed(c) ==
  /\ run[c].pc = "s98"
  /\ db' = AddOne(c, "failed_count")
  /\ run' = Moved(c, "s104", CampaignsById(c))
  /\ UNCHANGED <<oneVars, deletion, creation>>

\* Lines 103-104: the INSERT throws to the outer catch when the campaign or
\* the recipient row is gone.
InsertFailedLog(c) ==
  /\ run[c].pc = "s104"
  /\ IF ForeignKeysHold(c, CurrentOf(c))
       THEN /\ db' = InsertLog(c, CurrentOf(c), "failed")
            /\ run' = Moved(c, "s108", {c})
       ELSE /\ run' = Moved(c, "s129", {})
            /\ UNCHANGED db
  /\ UNCHANGED <<oneVars, deletion, creation>>

\* Lines 107-109.
Pace(c) ==
  /\ run[c].pc = "s108"
  /\ run' = [run EXCEPT
       ![c].idx = @ + 1,
       ![c].pc = IF run[c].idx < Len(run[c].recipients) THEN "s71" ELSE "s115"]
  /\ UNCHANGED <<oneVars, db, deletion, creation>>

\* Lines 111-123.
SetCompleted(c) ==
  /\ run[c].pc = "s115"
  /\ db' = SetStatus(c, "completed")
  /\ run' = Moved(c, "returned", CampaignsById(c))
  /\ UNCHANGED <<oneVars, deletion, creation>>

\* Lines 124-135.
SetFailed(c) ==
  /\ run[c].pc = "s129"
  /\ db' = SetStatus(c, "failed")
  /\ run' = Moved(c, "threw", CampaignsById(c))
  /\ UNCHANGED <<oneVars, deletion, creation>>

\* The dispatcher loop of campaign c is running: line 63 is done, the step
\* that leaves the loop is not.
LoopRunning(c) ==
  run[c].pc \in {"s71", "s184", "s75", "s81", "s92", "s98", "s104", "s108"}

\* campaigns.js 323-343: the delete route reads the status and rejects a
\* campaign that is sending.
DeleteSelect(c, u) ==
  /\ deletion.pc = "idle"
  /\ LET rows == CampaignsOfUser(c, u)
     IN deletion' = [deletion EXCEPT
          !.campaignId = c,
          !.userId = u,
          !.pc = IF rows # {} /\ db.campaigns[c].status # "sending"
                 THEN "d346" ELSE "responded",
          !.response = IF rows = {} THEN "404"
                       ELSE IF db.campaigns[c].status = "sending"
                            THEN "400" ELSE @]
  /\ UNCHANGED <<oneVars, db, run, creation>>

\* The tables without the campaigns ids and, by ON DELETE CASCADE, without
\* their recipients and logs.
Cascade(ids) ==
  [campaigns |->
     [i \in DOMAIN db.campaigns \ ids |-> db.campaigns[i]],
   campaign_recipients |->
     [r \in {x \in DOMAIN db.campaign_recipients :
               db.campaign_recipients[x].campaign_id \notin ids} |->
        db.campaign_recipients[r]],
   email_logs |-> {l \in db.email_logs : l.campaign_id \notin ids}]

\* campaigns.js 345-361: DELETE FROM campaigns WHERE id = $1 AND user_id = $2.
DeleteCampaign ==
  /\ deletion.pc = "d346"
  /\ LET rows == CampaignsOfUser(deletion.campaignId, deletion.userId)
     IN /\ db' = Cascade(rows)
        /\ deletion' = [deletion EXCEPT
             !.pc = "responded",
             !.response = IF rows = {} THEN "404" ELSE "200",
             !.loopRunning = rows # {} /\ LoopRunning(deletion.campaignId)]
  /\ UNCHANGED <<oneVars, run, creation>>

StartAndDispatch(c) ==
  \/ \E u \in UserIds : StartSelect(c, u)
  \/ StartCheckSmtp(c) \/ StartQueue(c)
  \/ ReadCampaign(c) \/ ReadPending(c) \/ SetCompletedEmpty(c)
  \/ OpenTransport(c) \/ SetTransportFailed(c) \/ SetSending(c)
  \/ Send(c) \/ InsertSentLog(c) \/ SetRecipientSent(c) \/ CountSent(c)
  \/ SetRecipientFailed(c) \/ CountFailed(c) \/ InsertFailedLog(c)
  \/ Pace(c) \/ SetCompleted(c) \/ SetFailed(c)

NextCampaigns ==
  \/ \E c \in CampaignIds : StartAndDispatch(c)
  \/ \E c \in CampaignIds, u \in UserIds : DeleteSelect(c, u)
  \/ DeleteCampaign

SpecCampaigns == InitCampaigns /\ [][NextCampaigns]_vars

\* Line 11 and the module's exports: sendCampaign(campaignId, userId) called
\* directly, with any campaign id and any user id.
DirectCall(c, u) ==
  /\ run[c].pc = "idle"
  /\ run' = [run EXCEPT ![c] = [IdleRun EXCEPT !.pc = "s16", !.userId = u]]
  /\ UNCHANGED <<oneVars, db, deletion, creation>>

NextCalls ==
  \/ NextCampaigns
  \/ \E c \in CampaignIds, u \in UserIds : DirectCall(c, u)

\* The table-level server with direct calls of sendCampaign.
SpecCalls == InitCampaigns /\ [][NextCalls]_vars

\* The rows of campaign d: its campaigns row, its recipient entries with their
\* ids, its log entries.
RowsOf(tables, d) ==
  <<IF d \in DOMAIN tables.campaigns THEN {tables.campaigns[d]} ELSE {},
    {<<r, tables.campaign_recipients[r]>> :
       r \in {x \in DOMAIN tables.campaign_recipients :
                tables.campaign_recipients[x].campaign_id = d}},
    {l \in tables.email_logs : l.campaign_id = d}>>

C23_State == \A c \in CampaignIds : run[c].touched \subseteq {c}

C23_Step ==
  \A c \in CampaignIds :
    run'[c] # run[c] =>
      \A d \in CampaignIds \ {c} : RowsOf(db', d) = RowsOf(db, d)

\* C23: the start request and the run of one campaign select, update and
\* insert rows of that campaign only; a step of theirs leaves the campaign
\* row, the recipient entries, the counters and the log entries of every other
\* campaign as they are, also while the other campaigns are being dispatched.
C23_OtherCampaignsUntouched == []C23_State /\ [][C23_Step]_vars

\* Both campaigns are in their loops and both have logged a send.
C23_Witness ==
  /\ \A c \in CampaignIds :
       /\ LoopRunning(c)
       /\ \E l \in db.email_logs : l.campaign_id = c
       /\ run[c].touched = {c}

\* C28: a campaign whose dispatcher loop is running is never deleted: no step
\* removes the campaign row while the loop of its run is running.
C28_NoDeleteWhileLoopRuns ==
  [][\A c \in CampaignIds :
       (c \in DOMAIN db.campaigns /\ LoopRunning(c)) =>
         c \in DOMAIN db'.campaigns]_vars

\* ------------------------------------------------ POST /api/campaigns

\* The rows of the uploaded CSV file, at most MaxRows of them; a row is the
\* value of its email column, a sequence of characters.  The file has an
\* email column and the other fields of the request are valid.
MaxRows == 2

EmailFields ==
  {<<"a", "@", "x">>, <<"A", "@", "x">>, <<"a", "@", "X">>, <<"b", "@", "x">>,
   <<" ", "a", "@", "x">>, <<"a">>, <<>>}

CsvFiles == UNION {[1..n -> EmailFields] : n \in 0..MaxRows}

\* String.prototype.toLowerCase over the letters of the model.
toLowerCase(str) ==
  [i \in 1..Len(str) |->
     CASE str[i] = "A" -> "a" [] str[i] = "X" -> "x" [] OTHER -> str[i]]

\* String.prototype.trim.
RECURSIVE trim(_)
trim(str) ==
  IF str = <<>> THEN <<>>
  ELSE IF Head(str) = " " THEN trim(Tail(str))
  ELSE IF str[Len(str)] = " " THEN trim(SubSeq(str, 1, Len(str) - 1))
  ELSE str

\* csvParser.js line 7: [a-zA-Z0-9] of EMAIL_REGEX over the characters of the
\* model; of the other characters of its classes the model has "." and "-".
Alnum == {"a", "b", "x", "A", "X"}

\* csvParser.js line 7: {0,61} characters between the ends of a label.
LabelMiddleMax == 61

\* [a-zA-Z0-9](?:[a-zA-Z0-9-]{0,61}[a-zA-Z0-9])?
DomainLabel(str) ==
  /\ Len(str) \in 1..(LabelMiddleMax + 2)
  /\ str[1] \in Alnum
  /\ str[Len(str)] \in Alnum
  /\ \A i \in 1..Len(str) : str[i] \in Alnum \cup {"-"}

\* label(?:\.label)*
RECURSIVE Domain(_)
Domain(str) ==
  LET dots == {i \in 1..Len(str) : str[i] = "."}
  IN IF dots = {} THEN DomainLabel(str)
     ELSE LET j == CHOOSE i \in dots : \A k \in dots : i <= k
          IN /\ DomainLabel(SubSeq(str, 1, j - 1))
             /\ Domain(SubSeq(str, j + 1, Len(str)))

\* EMAIL_REGEX.test(email).
EMAIL_REGEX(email) ==
  \E k \in 2..Len(email) :
    /\ email[k] = "@"
    /\ \A i \in 1..(k - 1) : email[i] \in Alnum \cup {".", "-"}
    /\ Domain(SubSeq(email, k + 1, Len(email)))

\* csvParser.js line 164: the longest email accepted.
MaxEmailLength == 255

\* A duplicate check on the address as written.
emailAsWritten(email) == email

\* csvParser.js line 185: the key of the duplicate check.
emailLower(email) == toLowerCase(email)

\* csvParser.js 141-245: validateRecipients, row by row from row i on.
RECURSIVE validateFrom(_, _, _, _, _)
validateFrom(records, i, seenEmails, errors, validRecipients) ==
  IF i > Len(records)
    THEN [valid |-> errors = <<>>, errors |-> errors,
          recipients |-> validRecipients]
    ELSE LET email == trim(records[i])
             error(text) ==
               validateFrom(records, i + 1, seenEmails,
                            Append(errors, text), validRecipients)
         IN IF email = <<>> THEN error("Email is required")
            ELSE IF Len(email) > MaxEmailLength
              THEN error("Email exceeds maximum length of 255 characters")
            ELSE IF ~EMAIL_REGEX(email) THEN error("Invalid email format")
            ELSE IF emailLower(email) \in seenEmails
              THEN error("Duplicate email address")
            ELSE validateFrom(records, i + 1,
                              seenEmails \cup {emailLower(email)}, errors,
                              Append(validRecipients,
                                     [email |-> toLowerCase(email)]))

validateRecipients(records) == validateFrom(records, 1, {}, <<>>, <<>>)

\* csvParser.js 22-135: parseCSV of a file with an email column.
parseCSV(records) ==
  IF Len(records) = 0
    THEN [valid |-> FALSE, errors |-> <<"CSV file contains no data rows">>,
          recipients |-> <<>>]
    ELSE validateRecipients(records)

NoRows == [campaigns |-> <<>>, campaign_recipients |-> <<>>, email_logs |-> {}]

\* The request: its file, the recipients parseCSV returned, the rows its
\* transaction has inserted and not yet committed.
InitCreate ==
  /\ campaign = [status |-> "draft", recipient_count |-> NumRecipients,
                 sent_count |-> 0, failed_count |-> 0,
                 started_at |-> NULL, completed_at |-> NULL]
  /\ campaign_recipients =
       [r \in RecipientIds |->
          [status |-> "pending", error_message |-> NULL, sent_at |-> NULL]]
  /\ email_logs = <<>>
  /\ smtp_config = "none"
  /\ task = [p \in Tasks |-> IdleTask]
  /\ attempts = [r \in RecipientIds |-> 0]
  /\ crashes = 0
  /\ poll = IdlePoll
  /\ render = NoRender
  /\ db = NoRows
  /\ run = NoTables
  /\ deletion = NoTables
  /\ \E file \in CsvFiles, u \in UserIds :
       creation = [pc |-> "c72", userId |-> u, records |-> file,
                   recipients |-> <<>>, i |-> 0, campaignId |-> 0,
                   response |-> NULL, rows |-> NoRows]
  /\ message = NoTables

\* campaigns.js 70-92: a file that is not valid is answered 400.
CreateParse ==
  /\ creation.pc = "c72"
  /\ LET csvResult == parseCSV(creation.records)
     IN creation' = [creation EXCEPT
          !.recipients = csvResult.recipients,
          !.pc = IF csvResult.valid THEN "c95" ELSE "responded",
          !.response = IF csvResult.valid THEN @ ELSE "400"]
  /\ UNCHANGED <<oneVars, db, run, deletion>>

\* A query of the transaction throws: control goes to the catch of line 180.
CreateThrows == creation' = [creation EXCEPT !.pc = "c181"]

\* campaigns.js 92-95: BEGIN.
CreateBegin ==
  /\ creation.pc = "c95"
  /\ creation' = [creation EXCEPT !.pc = "c98"] \/ CreateThrows
  /\ UNCHANGED <<oneVars, db, run, deletion>>

\* The next value of a SERIAL id of a table with the given rows.
NextId(committed, uncommitted) ==
  Cardinality(DOMAIN committed \cup DOMAIN uncommitted) + 1

\* campaigns.js 97-106: INSERT INTO campaigns ... 'draft'.
CreateInsertCampaign ==
  /\ creation.pc = "c98"
  /\ \/ LET id == NextId(db.campaigns, creation.rows.campaigns)
        IN creation' = [creation EXCEPT
             !.pc = "c143", !.i = 1, !.campaignId = id,
             !.rows.campaigns =
                (id :> [user_id |-> creation.userId, status |-> "draft",
                        sent_count |-> 0, failed_count |-> 0,
                        recipient_count |-> Len(creation.recipients)]) @@ @]
     \/ CreateThrows
  /\ UNCHANGED <<oneVars, db, run, deletion>>

\* campaigns.js 129-153: one INSERT INTO campaign_recipients per recipient.
CreateInsertRecipient ==
  /\ creation.pc = "c143"
  /\ \/ LET id == NextId(db.campaign_recipients, creation.rows.campaign_recipients)
        IN creation' = [creation EXCEPT
             !.pc = IF creation.i < Len(creation.recipients) THEN "c143" ELSE "c155",
             !.i = @ + 1,
             !.rows.campaign_recipients =
                (id :> [campaign_id |-> creation.campaignId,
                        email |-> creation.recipients[creation.i].email,
                        status |-> "pending"]) @@ @]
     \/ CreateThrows
  /\ UNCHANGED <<oneVars, db, run, deletion>>

\* campaigns.js 155-179: COMMIT makes the rows of the transaction visible; the
\* answer is 201.
CreateCommit ==
  /\ creation.pc = "c155"
  /\ \/ /\ db' = [db EXCEPT
                    !.campaigns = creation.rows.campaigns @@ @,
                    !.campaign_recipients = creation.rows.campaign_recipients @@ @]
        /\ creation' = [creation EXCEPT !.pc = "responded", !.response = "201",
                                        !.rows = NoRows]
     \/ CreateThrows /\ UNCHANGED db
  /\ UNCHANGED <<oneVars, run, deletion>>

\* A catch block that answers 500 without ROLLBACK, on a connection that
\* commits what was inserted.
CreateWithoutRollback ==
  /\ creation.pc = "c181"
  /\ db' = [db EXCEPT
              !.campaigns = creation.rows.campaigns @@ @,
              !.campaign_recipients = creation.rows.campaign_recipients @@ @]
  /\ creation' = [creation EXCEPT !.pc = "responded", !.response = "500",
                                  !.rows = NoRows]
  /\ UNCHANGED <<oneVars, run, deletion>>

\* campaigns.js 180-193: ROLLBACK drops the rows of the transaction; the
\* outer catch answers 500.
CreateRollback ==
  /\ creation.pc = "c181"
  /\ creation' = [creation EXCEPT !.pc = "responded", !.response = "500",
                                  !.rows = NoRows]
  /\ UNCHANGED <<oneVars, db, run, deletion>>

NextCreate ==
  \/ CreateParse \/ CreateBegin \/ CreateInsertCampaign
  \/ CreateInsertRecipient \/ CreateCommit \/ CreateRollback

SpecCreate == InitCreate /\ [][NextCreate]_vars

\* A creation request together with the start requests, the runs and the
\* delete requests of the table-level model: the tables are empty at first,
\* and the later operations act on the campaign that the request creates.
InitLifecycle ==
  /\ campaign = [status |-> "draft", recipient_count |-> NumRecipients,
                 sent_count |-> 0, failed_count |-> 0,
                 started_at |-> NULL, completed_at |-> NULL]
  /\ campaign_recipients =
       [r \in RecipientIds |->
          [status |-> "pending", error_message |-> NULL, sent_at |-> NULL]]
  /\ email_logs = <<>>
  /\ smtp_config = "good"
  /\ task = [p \in Tasks |-> IdleTask]
  /\ attempts = [r \in RecipientIds |-> 0]
  /\ crashes = 0
  /\ poll = IdlePoll
  /\ render = NoRender
  /\ db = NoRows
  /\ run = [c \in CampaignIds |-> IdleRun]
  /\ deletion = IdleDeletion
  /\ \E file \in CsvFiles, u \in UserIds :
       creation = [pc |-> "c72", userId |-> u, records |-> file,
                   recipients |-> <<>>, i |-> 0, campaignId |-> 0,
                   response |-> NULL, rows |-> NoRows]
  /\ message = NoTables

NextLifecycle == NextCreate \/ NextCampaigns

SpecLifecycle == InitLifecycle /\ [][NextLifecycle]_vars

\* Two addresses are the same compared case-insensitively.
SameIgnoringCase(e1, e2) ==
  /\ Len(e1) = Len(e2)
  /\ \A i \in 1..Len(e1) :
       \/ e1[i] = e2[i]
       \/ {e1[i], e2[i]} \in {{"a", "A"}, {"x", "X"}}

\* The file has two rows with the same address, compared case-insensitively
\* after trimming.
HasDuplicate(records) ==
  \E i, j \in 1..Len(records) :
    i # j /\ SameIgnoringCase(trim(records[i]), trim(records[j]))

C24_State ==
  /\ \A r1, r2 \in DOMAIN db.campaign_recipients :
       (/\ r1 # r2
        /\ db.campaign_recipients[r1].campaign_id =
             db.campaign_recipients[r2].campaign_id) =>
         ~SameIgnoringCase(db.campaign_recipients[r1].email,
                           db.campaign_recipients[r2].email)
  /\ HasDuplicate(creation.records) =>
       /\ creation.response # "201"
       /\ DOMAIN db.campaigns = {}
       /\ DOMAIN creation.rows.campaigns = {}

\* C24: no two recipient entries of one campaign have the same address
\* compared case-insensitively, and a file that holds such a duplicate never
\* yields a campaign: the request is answered 400 and inserts no row.
C24_NoDuplicateRecipients ==
  C24_State /\ (creation.pc = "responded" /\ HasDuplicate(creation.records) =>
                  creation.response = "400")

\* A file whose two rows differ in case only has been rejected.
C24_Witness ==
  /\ creation.pc = "responded"
  /\ creation.records = <<<<"a", "@", "x">>, <<"A", "@", "x">>>>
  /\ creation.response = "400"

\* The entries that the run of task p read as pending.
ListOf(p) == {task[p].recipients[i] : i \in 1..Len(task[p].recipients)}

\* Task p has made a send attempt for every entry of its list before b and for
\* none after b.
AttemptedUpTo(p, b) ==
  \A a \in ListOf(p) :
    /\ a < b => task[p].results[a] # <<>>
    /\ a > b => task[p].results[a] = <<>>

C29_State ==
  \A p \in Tasks :
    \A i, j \in 1..Len(task[p].recipients) :
      i < j => task[p].recipients[i] < task[p].recipients[j]

C29_Step ==
  \A p \in Tasks :
    /\ (task[p].pc = "s71" /\ task'[p].pc \in {"s184", "s92"}) =>
         AttemptedUpTo(p, Current(p))
    /\ (/\ task[p].pc \in {"s184", "s104"}
        /\ task'[p].pc # task[p].pc
        /\ Len(email_logs') = Len(email_logs) + 1) =>
         /\ email_logs'[Len(email_logs')].recipient_id = Current(p)
         /\ AttemptedUpTo(p, Current(p))
         /\ \A a \in ListOf(p) :
              a < Current(p) =>
                \E i \in 1..Len(email_logs) : email_logs[i].recipient_id = a

\* C29: a run processes the entries it read as pending in ascending id
\* order: when it makes the send attempt for an entry b, and when it writes
\* the log entry for b, it has made the attempts for all entries of its list
\* before b, their log entries are written, and it has made no attempt for an
\* entry after b.
C29_AscendingIdOrder == []C29_State /\ [][C29_Step]_vars

\* A run has logged its first entry and is writing the log entry of its
\* second one.
C29_Witness ==
  \E p \in Tasks :
    /\ task[p].pc \in {"s184", "s104"}
    /\ task[p].idx = 2
    /\ Len(task[p].recipients) >= 2
    /\ \E i \in 1..Len(email_logs) :
         email_logs[i].recipient_id = task[p].recipients[1]

\* ------------------------------------------------ sendToRecipient

\* A JavaScript value that is undefined, null or a string of characters.
Undefined == [kind |-> "undefined", chars |-> <<>>]
Null == [kind |-> "null", chars |-> <<>>]
Str(chars) == [kind |-> "string", chars |-> chars]

\* A value is truthy: a string that is not empty.
Truthy(v) == v.kind = "string" /\ v.chars # <<>>

\* Lines 204-205 and 213: `if (!text) return ''` and `value || ''`.
OrEmpty(v) == IF Truthy(v) THEN v.chars ELSE <<>>

\* The name of the CSV column of the model, a custom field.
KeyField == <<"a">>

\* The templates of the campaign and the overrides of the recipient, each
\* with a first letter of its own, with and without a placeholder.
WithAndWithoutPlaceholder(letter) ==
  {<<letter>>, <<letter>> \o Placeholder(KeyField)}

Overrides(letter) ==
  {Undefined, Null} \cup {Str(t) : t \in WithAndWithoutPlaceholder(letter)}

MessageCampaigns ==
  [subject : WithAndWithoutPlaceholder("S"),
   email_body : WithAndWithoutPlaceholder("B"),
   html_body : {Null, Str(<<>>)} \cup
               {Str(t) : t \in WithAndWithoutPlaceholder("H")}]

\* The custom_fields of a recipient row: the CSV column a, and the overrides
\* that the creation route stores under custom_subject and custom_body
\* (campaigns.js 135-141); a key whose value is undefined is not stored.
MessageRecipients ==
  [name : {<<"N">>}, email : {<<"a", "@", "x">>},
   custom_fields : [a : {Undefined, Str(<<"v">>)},
                    custom_subject : Overrides("s"),
                    custom_body : Overrides("b")]]

\* The entries of the stored custom_fields object, in the key order of jsonb.
EntriesOf(customFields) ==
  LET entry(key, v) == IF v.kind = "undefined" THEN <<>>
                       ELSE <<<<key, OrEmpty(v)>>>>
  IN entry(KeyField, customFields.a)
       \o entry(<<"c", "u", "s", "t", "o", "m", "_", "b", "o", "d", "y">>,
                customFields.custom_body)
       \o entry(<<"c", "u", "s", "t", "o", "m", "_", "s", "u", "b", "j", "e", "c", "t">>,
                customFields.custom_subject)

\* Lines 148-153: { name, email, ...customFields }.
recipientData(recipient) ==
  <<<<<<"n", "a", "m", "e">>, recipient.name>>,
    <<<<"e", "m", "a", "i", "l">>, recipient.email>>>>
    \o EntriesOf(recipient.custom_fields)

\* Lines 165-167: the html part is rendered from campaign.html_body.
htmlBody(recipient, row) ==
  IF Truthy(row.html_body)
    THEN Str(replaceTemplateVariables(row.html_body.chars,
                                      recipientData(recipient)))
    ELSE Null

\* Lines 146-181: the message handed to sendEmail.
sendToRecipient(recipient, row) ==
  LET customFields == recipient.custom_fields
      hasCustomSubject == customFields.custom_subject.kind # "undefined"
      hasCustomBody == customFields.custom_body.kind # "undefined"
      baseSubject == IF hasCustomSubject THEN OrEmpty(customFields.custom_subject)
                     ELSE row.subject
      baseBody == IF hasCustomBody THEN OrEmpty(customFields.custom_body)
                  ELSE row.email_body
  IN [to |-> recipient.email,
      subject |-> replaceTemplateVariables(baseSubject, recipientData(recipient)),
      text |-> replaceTemplateVariables(baseBody, recipientData(recipient)),
      html |-> htmlBody(recipient, row)]

InitMessage ==
  /\ campaign = [status |-> "draft", recipient_count |-> NumRecipients,
                 sent_count |-> 0, failed_count |-> 0,
                 started_at |-> NULL, completed_at |-> NULL]
  /\ campaign_recipients =
       [r \in RecipientIds |->
          [status |-> "pending", error_message |-> NULL, sent_at |-> NULL]]
  /\ email_logs = <<>>
  /\ smtp_config = "none"
  /\ task = [p \in Tasks |-> IdleTask]
  /\ attempts = [r \in RecipientIds |-> 0]
  /\ crashes = 0
  /\ poll = IdlePoll
  /\ render = NoRender
  /\ db = NoTables
  /\ run = NoTables
  /\ deletion = NoTables
  /\ creation = NoTables
  /\ \E c \in MessageCampaigns, r \in MessageRecipients :
       message = [pc |-> "call", campaign |-> c, recipient |-> r,
                  sent |-> Null, log |-> <<>>]

\* Lines 146-181: the call builds the message and hands it to sendEmail.
CallSendToRecipient ==
  /\ message.pc = "call"
  /\ message' = [message EXCEPT
       !.pc = "done",
       !.sent = sendToRecipient(message.recipient, message.campaign)]
  /\ UNCHANGED <<dbVars, smtp_config, task, attempts, crashes, poll, render,
                 tableVars>>

\* Lines 183-193: sendEmail resolved, and sendToRecipient logs the attempt
\* with the subject it rendered.
LogSentAttempt ==
  /\ message.pc = "done"
  /\ message.log = <<>>
  /\ message' = [message EXCEPT
       !.log = <<[subject |-> message.sent.subject, status |-> "sent"]>>]
  /\ UNCHANGED <<dbVars, smtp_config, task, attempts, crashes, poll, render,
                 tableVars>>

\* Lines 88 and 103-104: sendEmail threw, and the catch block of the loop
\* logs the attempt with campaign.subject.
LogFailedAttempt ==
  /\ message.pc = "done"
  /\ message.log = <<>>
  /\ message' = [message EXCEPT
       !.log = <<[subject |-> message.campaign.subject, status |-> "failed"]>>]
  /\ UNCHANGED <<dbVars, smtp_config, task, attempts, crashes, poll, render,
                 tableVars>>

NextMessage == CallSendToRecipient \/ LogSentAttempt \/ LogFailedAttempt

SpecMessage == InitMessage /\ [][NextMessage]_vars

\* The text rendered for the recipient of the call.
RenderedFor(text) ==
  replaceTemplateVariables(text, recipientData(message.recipient))

\* C30: with a subject override the subject is rendered from the override,
\* without one from the campaign's subject; with a body override the text part
\* and, if the message has one, the html part are rendered from the override,
\* without one from the campaign's email_body and html_body; the two are
\* resolved independently.
C30_OverridesUsed ==
  message.pc = "done" =>
    LET fields == message.recipient.custom_fields
        c == message.campaign
        m == message.sent
    IN /\ fields.custom_subject.kind = "string" =>
            m.subject = RenderedFor(fields.custom_subject.chars)
       /\ fields.custom_subject.kind = "undefined" =>
            m.subject = RenderedFor(c.subject)
       /\ fields.custom_body.kind = "string" =>
            /\ m.text = RenderedFor(fields.custom_body.chars)
            /\ m.html.kind = "string" =>
                 m.html.chars = RenderedFor(fields.custom_body.chars)
       /\ fields.custom_body.kind = "undefined" =>
            /\ m.text = RenderedFor(c.email_body)
            /\ m.html = IF Truthy(c.html_body)
                          THEN Str(RenderedFor(c.html_body.chars)) ELSE Null

\* C31: the subject of a send log entry is the subject rendered for that
\* attempt, the recipient's effective subject with its placeholders
\* substituted, for a failed attempt as for a successful one.
C31_LoggedSubjectIsRendered ==
  \A i \in 1..Len(message.log) :
    message.log[i].subject = message.sent.subject

\* C32: a campaign that a start request has set to queued eventually has
\* status completed or failed, when the background task is scheduled and every
\* transport and storage call returns.
C32_QueuedEventuallyTerminal ==
  (campaign.status = "queued") ~> (campaign.status \in {"completed", "failed"})

\* The template's parts are plain text and placeholders whose keys the field
\* map has, and the keys of the field map are names; its values are any.
PresentKeysAnyValues(parts, data) ==
  /\ \A i \in 1..Len(parts) :
       \/ parts[i] = <<"x">>
       \/ IsPlaceholder(parts[i]) /\ NameOf(parts[i]) \in KeysOf(data)
  /\ \A i \in 1..Len(data) : data[i][1] \in PlaceholderNames

\* C33: a substituted field value appears in the output verbatim, also when
\* it holds placeholder-like text or a character that is special to the
\* replacement: the output is the template with every placeholder replaced by
\* the value of its key, as the value is written.
C33_ValuesVerbatim ==
  (render.pc = "done" /\ PresentKeysAnyValues(render.parts, render.data)) =>
    render.result = Substituted(render.parts, render.data)

\* The ids of the recipient entries of campaign c in the tables.
EntriesOfCampaign(tables, c) ==
  {r \in DOMAIN tables.campaign_recipients :
     tables.campaign_recipients[r].campaign_id = c}

\* Every campaign has exactly recipient_count entries, every entry belongs to
\* a campaign, and a request that was not answered 201 has left no row.
C34_State ==
  /\ \A c \in DOMAIN db.campaigns :
       Cardinality(EntriesOfCampaign(db, c)) = db.campaigns[c].recipient_count
  /\ \A r \in DOMAIN db.campaign_recipients :
       db.campaign_recipients[r].campaign_id \in DOMAIN db.campaigns
  /\ creation.response # "201" =>
       DOMAIN db.campaigns = {} /\ DOMAIN db.campaign_recipients = {}

\* The step that creates a campaign adds it as a draft together with all its
\* entries, all pending; no step changes the recipient_count or the entries of
\* a campaign that exists before and after it.
C34_Step ==
  /\ \A c \in DOMAIN db'.campaigns \ DOMAIN db.campaigns :
       /\ creation'.response = "201" /\ c = creation.campaignId
       /\ db'.campaigns[c].status = "draft"
       /\ db'.campaigns[c].recipient_count = Len(creation.recipients)
       /\ \A r \in EntriesOfCampaign(db', c) :
            db'.campaign_recipients[r].status = "pending"
  /\ \A c \in DOMAIN db'.campaigns \cap DOMAIN db.campaigns :
       /\ db'.campaigns[c].recipient_count = db.campaigns[c].recipient_count
       /\ EntriesOfCampaign(db', c) = EntriesOfCampaign(db, c)

\* C34: creation is atomic and fixes recipient_count: a created campaign
\* starts in draft with exactly recipient_count entries, all pending; a request
\* one of whose inserts fails leaves neither the campaign nor an entry; and no
\* later operation changes the recipient_count or the number of entries of a
\* campaign.
C34_CreationAtomic == []C34_State /\ [][C34_Step]_vars

\* The created campaign of two entries has been sent to and completed.
C34_Witness ==
  /\ creation.response = "201"
  /\ creation.campaignId \in DOMAIN db.campaigns
  /\ db.campaigns[creation.campaignId].recipient_count = 2
  /\ db.campaigns[creation.campaignId].status = "completed"
  /\ db.campaigns[creation.campaignId].sent_count = 1
  /\ db.campaigns[creation.campaignId].failed_count = 1

\* C35: once the campaign's status is completed or failed it is quiescent:
\* no step makes a send attempt for it or changes its status, its counters,
\* its recipient entries or its send log.
C35_TerminalIsQuiescent ==
  [][campaign.status \in {"completed", "failed"} =>
       /\ campaign'.status = campaign.status
       /\ campaign'.sent_count = campaign.sent_count
       /\ campaign'.failed_count = campaign.failed_count
       /\ campaign_recipients' = campaign_recipients
       /\ email_logs' = email_logs
       /\ attempts' = attempts]_vars

\* C36: in every reachable state the progress computed from the campaign row
\* has a pending value that is not negative and a percentage between 0 and
\* 100 (1000 tenths).
C36_ProgressInRange ==
  LET progress == calculateProgress(campaign)
  IN /\ progress.pending >= 0
     /\ progress.percentage >= 0
     /\ progress.percentage <= 1000

\* The steps of a run of sendCampaign whose SELECT of line 16 finds no row
\* for its campaign id and user id: the run goes to the outer catch with
\* 'Campaign not found', throws, and no campaigns row changes.
C37_Step ==
  \A c \in CampaignIds :
    /\ (/\ run[c].pc = "s16" /\ run'[c] # run[c]
        /\ CampaignsOfUser(c, run[c].userId) = {}) =>
         /\ run'[c].pc = "s129" /\ run'[c].error = NotFoundError
         /\ db'.campaigns = db.campaigns
    /\ (/\ run[c].pc = "s129" /\ run'[c] # run[c]
        /\ run[c].error = NotFoundError) =>
         /\ run'[c].pc = "threw"
         /\ db'.campaigns = db.campaigns

\* C37: a call of sendCampaign with a user id that does not own the campaign,
\* or with the id of no existing campaign, fails with an error and changes no
\* campaigns row, in particular not the status of another user's campaign.
C37_ForeignCallChangesNothing == [][C37_Step]_vars

\* C38: within a single dispatcher run the counters never run ahead of the
\* ledger: sent_count is at most the number of entries with status sent and
\* failed_count at most the number with status failed.
C38_CountersNotAhead ==
  /\ campaign.sent_count <= CountStatus(campaign_recipients, "sent")
  /\ campaign.failed_count <= CountStatus(campaign_recipients, "failed")

\* An entry was counted as failed, and the process exited after the next
\* entry was marked sent and before it was counted.
C38_Witness ==
  /\ crashes = 1
  /\ campaign.failed_count = 1 /\ CountStatus(campaign_recipients, "failed") = 1
  /\ campaign.sent_count = 0 /\ CountStatus(campaign_recipients, "sent") = 1

\* C39: a transporter that sendCampaign has created is closed on every path
\* by which sendCampaign ends: no run has returned or thrown with its
\* transporter open.
C39_TransporterClosed ==
  \A p \in Tasks :
    task[p].pc \in {"returned", "threw"} => task[p].transporter # "open"

\* The text holds a well-formed placeholder token: {{, one or more characters
\* other than }, and }}.
HasToken(s) ==
  \E i \in 1..Len(s) :
    LET n == RunOfNonClosing(s, i + 2)
    IN /\ i + n + 3 <= Len(s)
       /\ s[i] = "{" /\ s[i + 1] = "{"
       /\ n >= 1
       /\ s[i + n + 2] = "}" /\ s[i + n + 3] = "}"

\* C40: for every template and every field map whose values hold no brace,
\* the rendered text holds no well-formed placeholder token.
C40_NoTokenInOutput ==
  render.pc = "done" => ~HasToken(render.result)

====
